---- MODULE Spec2Model ----
(***************************************************************************)
(* Media organizer: worker pool, batch scheduler, spatial grid and file    *)
(* organizer of the optimized image organizer (package main).              *)
(*                                                                         *)
(* SpecPool  : a WorkerPool driven by one caller through Submit, Close,    *)
(*             Wait and receives on Results.                               *)
(* SpecGrid  : AddImage calls on a fresh SpatialGrid.                      *)
(* Spec      : one run of organizeImages: discovery, batches through the   *)
(*             pool, clustering, copying into the output folder.           *)
(* SpecRerun : the same folders organized again.                           *)
(* SpecExisting : one run into an output folder that already holds files.  *)
(* SpecStraddle : one run over files taken on both sides of a cell boundary.*)
(* SpecExtract  : one call of extractImageInfo on one file.                *)
(* SpecParse    : one call of extractDateFromFilename on one file name.    *)
(* SpecWalk     : one call of findMediaFiles on one tree.                  *)
(* SpecLog      : Add and GetLines calls on a fresh LogBuffer.             *)
(* SpecHang     : one run in which an exiftool call may never return.      *)
(* SpecScheduled: one run under the fairness of the Go scheduler.          *)
(* SpecOverlap  : Start pressed again while a run is in progress.          *)
(* SpecTimer    : the periodic and the final update of the log display.    *)
(***************************************************************************)
EXTENDS Integers, Sequences, FiniteSets, TLC

(***************************************************************************)
(* Bounds of the model.                                                    *)
(***************************************************************************)
MaxWorkers == 2
MaxBuffer == 2
MaxJobs == 3

MaxAdds == 3        \* AddImage calls in SpecGrid

MaxFiles == 5       \* files of the source tree in Spec
MaxBatch == 2       \* largest batch size in Spec
MaxRuns == 2        \* startOrganizing calls in SpecRerun
MaxFaults == 1      \* files and directories the environment fails on

Workers == 1..MaxWorkers
Files == 1..MaxJobs
AllFiles == 1..(IF MaxJobs > MaxFiles THEN MaxJobs ELSE MaxFiles)

NoFile == 0

VARIABLES
    wp,             \* the WorkerPool: WorkerCount, Jobs, Results, wg, closed
    \* worker goroutines
    wpc,            \* position of each worker goroutine
    wjob,           \* mediaFile held by the worker
    wres,           \* result built by the worker
    fate,           \* what os.Open and os.Stat answer for each file, once asked
    calls,          \* extractImageInfo calls of this run for each file, by caller
    panic,          \* unrecovered panic that ended the process ("none" when alive)
    \* the caller of the pool in SpecPool
    cpc,            \* position of the caller
    cjob,           \* argument of the Submit call in progress
    nextJob,        \* next file the caller will submit
    submitted,      \* files passed to Submit while the pool was open
    rejected,       \* files passed to Submit after Close
    collected,      \* number of results received from wp.Results, per file
    waitReturned,   \* Wait() has returned
    \* the clusterer
    spatialGrid,    \* app.spatialGrid: cells and sensitivity
    inserted,       \* SpecGrid: the records passed to AddImage, in call order
    \* configuration and environment of a run
    batchSize,      \* app.batchSize
    workerCount,    \* app.workerCount
    srcCount,       \* number of media files under the source folder
    clicks,         \* times the user presses the Start button
    srcLayout,      \* where the files of the source tree were taken
    walkFate,       \* whether filepath.Walk of the source folder fails, once asked
    \* organizeImages
    rpc,            \* position of the organizeImages goroutine
    run,            \* number of startOrganizing calls so far
    mediaFiles,     \* the discovered list
    batchStart, batchEnd,
    sub,            \* files of the current batch already submitted
    got,            \* loop counter i of the collect loop
    imageInfos,     \* records collected for the current batch
    errorCount,     \* errorCount of processFilesWithPool
    processedFiles, totalFiles,
    batches,        \* history: the batchFiles slices processed in this run
    warned,         \* history: files logged "Could not extract info" in this run
    \* organizeByLocationClusters
    finalClusters,  \* the cluster list being organized
    ci,             \* index of the current cluster
    clusterImageInfos, \* sorted records of the current cluster
    ck,             \* index of the next record to copy
    copiedCount, skippedCount,
    tally,          \* totals of the per-batch and per-cluster counts logged in this run
    \* the output folder
    fs,             \* files under the output folder
    dirs,           \* directories created under the output folder
    badDirs,        \* directories os.MkdirAll cannot create
    copyFate,       \* how copying each source file ends, once tried
    copyLog,        \* the files named in an "Error copying" log line
    findErrors,     \* history: "Error finding media files" lines logged in this run
    \* SpecExtract: one call of extractImageInfo
    exIn,           \* what the file and the environment hold
    exOut,          \* what the call returned
    filename,       \* the argument of extractDateFromFilename, as characters
    parsed,         \* what extractDateFromFilename returned
    walkTree,       \* the entries filepath.Walk visits, in its order
    walkPos,        \* how many of them the callback of findMediaFiles has seen
    walkFound,      \* the mediaFiles slice findMediaFiles builds, as positions
    walkErr,        \* filepath.Walk returned an error
    lb,             \* a LogBuffer
    added,          \* the lines given to lb.Add, oldest first
    shown,          \* what the last call of lb.GetLines returned
    \* runs started while another is in progress
    started,        \* startOrganizing calls so far
    opc,            \* position of the organizeImages goroutine of each call
    olocal,         \* its local variables: mediaFiles, batch bounds, loop counters
    pools,          \* every WorkerPool made so far
    globalWorkerPool,   \* app.globalWorkerPool: an index into pools, or Nil
    grids,          \* every SpatialGrid made so far, as the records added to it
    gridField,      \* app.spatialGrid: an index into grids
    counters,       \* app.processedFiles and app.totalFiles
    opanic,         \* a goroutine of these runs panicked
    \* the log display
    logUpdateTimer, \* app.logUpdateTimer: none, running or stopped
    tick,           \* a tick waits in the ticker's channel
    tpc,            \* position of the goroutine that ranges over the ticks
    tlines,         \* the lines it got from GetLines
    upc,            \* position of organizeImages: logging, or in its deferred updates
    ulines,         \* the lines the final update got from GetLines
    logText         \* the lines last given to app.logText.SetText

workerVars == <<wpc, wjob, wres, fate, calls>>
callerVars == <<cpc, cjob, nextJob, submitted, rejected, collected, waitReturned>>
\* everything a worker goroutine never touches
gridVars == <<spatialGrid, inserted>>
cfgVars == <<batchSize, workerCount, srcCount, clicks, srcLayout, srcLayout, walkFate>>
loopVars == <<mediaFiles, batchStart, batchEnd, sub, got, imageInfos, errorCount,
              processedFiles, totalFiles, batches, warned>>
orgVars == <<finalClusters, ci, clusterImageInfos, ck, copiedCount, skippedCount>>
fsVars == <<fs, dirs, badDirs, copyFate, copyLog>>
parseVars == <<filename, parsed>>
walkVars == <<walkTree, walkPos, walkFound, walkErr>>
logVars == <<lb, added, shown>>
overlapVars == <<started, opc, olocal, pools, globalWorkerPool, grids, gridField, counters,
                 opanic>>
uiVars == <<logUpdateTimer, tick, tpc, tlines, upc, ulines, logText>>
extractVars == <<exIn, exOut, parseVars, walkVars, logVars, overlapVars, uiVars>>
runVars == <<cfgVars, rpc, run, loopVars, orgVars, tally, fsVars, findErrors, extractVars>>
restVars == <<callerVars, spatialGrid, inserted, runVars>>
vars == <<wp, workerVars, panic, restVars>>

(***************************************************************************)
(* The source tree: files are numbered in the order filepath.Walk visits   *)
(* them (lexical order of their paths).  The table gives, for each file,   *)
(* its base name, its capability class (from the extension), its dates and *)
(* its coordinates.                                                        *)
(*    1  a/x.jpg   2  a/y.heic   3  a/z.mp4   4  b/x.jpg   5  b/y2.heic ... *)
(***************************************************************************)
Base(f) == IF f = 4 THEN 1 ELSE f          \* filepath.Base: files 1 and 4 share it

Class(f) ==
    CASE f % 3 = 2 -> "LimitedMetadata"        \* .heic / .heif
      [] f % 3 = 0 -> "ExternalToolRequired"   \* videoFormats
      [] OTHER     -> "DirectMetadata"

\* the capture time the fallback chain resolves when os.Stat succeeds: files 3
\* and 4 were taken at the same time
FileDate(f) == IF f \in {3, 4} THEN 3 ELSE f + 1
\* the file name carries a date (the modification time is not used)
HasOwnDate(f) == f % 2 = 1
\* time.Now() at extraction
NowDate == 9

\* the .heic files of this tree carry no GPS tags; files 1, 3 and 4 lie in one
\* cell of the default grid, or file 4 lies just across the cell boundary
OneCell == "one cell"
TwoCells == "two cells"

FileHasGPS(f) == Class(f) # "LimitedMetadata"
FileLat(f) ==
    CASE f = 1 -> 100
      [] f = 3 -> 103
      [] f = 4 -> IF srcLayout = TwoCells THEN 96 ELSE 113
      [] OTHER -> 4 - 100 * f
FileLng(f) == 104

(***************************************************************************)
(* extractImageInfo.  One call is determined by what the file and the      *)
(* environment hold:                                                       *)
(*   class         capability class of the extension                       *)
(*   openOK, statOK   os.Open and os.Stat succeed                          *)
(*   modTime       fileInfo.ModTime()                                      *)
(*   filenameFound, filenameDate   what extractDateFromFilename returns    *)
(*   embeddedDate  the date in the metadata (ZeroTime: none or unparseable)*)
(*   decodeOK      exif.Decode succeeds                                    *)
(*   toolDateOK, toolGpsOK   exiftool is found and the query succeeds      *)
(*   hasGpsTags, lat, lng    the GPS tags in the metadata                  *)
(***************************************************************************)
\* time.Time{}
ZeroTime == 0

InfoRecord(imagePath, date, hasGPS, lat, lng) ==
    [kind         |-> "info",
     OriginalPath |-> imagePath,
     Date         |-> date,
     HasGPS       |-> hasGPS,
     Latitude     |-> IF hasGPS THEN lat ELSE 0,
     Longitude    |-> IF hasGPS THEN lng ELSE 0]

\* Date: time.Now(), then fileInfo.ModTime() when os.Stat succeeds
BaselineDate(in) == IF in.statOK THEN in.modTime ELSE NowDate

\* the filename date left unused
FilenameDateIgnored(in, date) == date

\* extractDateFromFilename: its date replaces the baseline when found
FilenameDate(in, date) ==
    IF in.filenameFound THEN in.filenameDate ELSE date

\* extractVideoDateWithExifTool: the zero time unless the tool answers a date
VideoDate(in) == IF in.toolDateOK THEN in.embeddedDate ELSE ZeroTime

\* extractHEICGPSWithExifTool: hasGPS only when both coordinates are non-zero
ToolGPS(in) ==
    LET lat == IF in.toolGpsOK /\ in.hasGpsTags THEN in.lat ELSE 0
        lng == IF in.toolGpsOK /\ in.hasGpsTags THEN in.lng ELSE 0
    IN  [hasGPS |-> lat # 0 /\ lng # 0, lat |-> lat, lng |-> lng]

\* a file without EXIF data reported as an error
NoExifDataIsError(imagePath, date) == [kind |-> "error"]

\* exif.Decode fails: return info, nil
NoExifData(imagePath, date) == InfoRecord(imagePath, date, FALSE, 0, 0)

ExtractRecord(imagePath, in) ==
    IF ~in.openOK THEN [kind |-> "error"]
    ELSE LET date == FilenameDate(in, BaselineDate(in))
             gps == ToolGPS(in)
         IN  CASE in.class = "ExternalToolRequired" ->
                    InfoRecord(imagePath,
                               IF VideoDate(in) # ZeroTime THEN VideoDate(in) ELSE date,
                               gps.hasGPS, gps.lat, gps.lng)
               [] in.class = "LimitedMetadata" ->
                    IF ~in.statOK
                    THEN [kind |-> "panic"]      \* fileInfo.ModTime() on the nil fileInfo
                    ELSE InfoRecord(imagePath, date, gps.hasGPS, gps.lat, gps.lng)
               [] OTHER ->
                    IF ~in.decodeOK THEN NoExifData(imagePath, date)
                    ELSE InfoRecord(imagePath,
                                    IF in.embeddedDate # ZeroTime
                                    THEN in.embeddedDate ELSE date,
                                    in.hasGpsTags, in.lat, in.lng)

\* the files of the source tree: their metadata carries coordinates but no
\* date, and exiftool is installed
FileInput(imagePath, openOK, statOK) ==
    [class        |-> Class(imagePath),
     openOK       |-> openOK,
     statOK       |-> statOK,
     modTime      |-> FileDate(imagePath),
     filenameFound |-> HasOwnDate(imagePath),
     filenameDate |-> IF HasOwnDate(imagePath) THEN FileDate(imagePath) ELSE ZeroTime,
     embeddedDate |-> ZeroTime,
     decodeOK     |-> TRUE,
     toolDateOK   |-> TRUE,
     toolGpsOK    |-> TRUE,
     hasGpsTags   |-> FileHasGPS(imagePath),
     lat          |-> FileLat(imagePath),
     lng          |-> FileLng(imagePath)]

extractImageInfo(imagePath, openOK, statOK) ==
    ExtractRecord(imagePath, FileInput(imagePath, openOK, statOK))

\* what the filesystem answers for one file; it answers the same every time
Fates == {"readable", "unopenable", "unstatable"}

ExtractWithFate(imagePath, f) ==
    extractImageInfo(imagePath, f # "unopenable", f # "unstatable")

(***************************************************************************)
(* ProcessingResult as built by the worker: the minimal ImageInfo and the  *)
(* error, or the extracted ImageInfo.                                      *)
(***************************************************************************)
ProcessingResult(mediaFile, r) ==
    IF r.kind = "error"
    THEN [path |-> mediaFile, error |-> TRUE, Info |-> [OriginalPath |-> mediaFile]]
    ELSE [path |-> mediaFile, error |-> FALSE, Info |-> r]

NoResult == [path |-> NoFile, error |-> FALSE, Info |-> [OriginalPath |-> NoFile]]

Alive == panic = "none"

\* no call of extractImageInfo yet
NoCalls == [f \in AllFiles |-> [worker |-> 0, organizer |-> 0]]

\* the failures the environment has shown so far, and whether it may show
\* one more
Faults ==
    Cardinality({f \in AllFiles : fate[f] \notin {"unknown", "readable"}})
    + Cardinality({f \in AllFiles : copyFate[f] \notin {"unknown", "ok"}})
    + Cardinality(badDirs)
    + (IF walkFate = "fails" THEN 1 ELSE 0)

MayFail == Faults < MaxFaults

(***************************************************************************)
(* Coordinates.  One unit is 0.00001 degree, and the representable         *)
(* coordinate values of the model lie one unit apart: a float64 operation  *)
(* returns the exact result rounded to the nearest representable value,    *)
(* ties to even.  Products and sums of the values used here are            *)
(* representable; quotients are rounded.                                   *)
(***************************************************************************)
Abs(x) == IF x < 0 THEN -x ELSE x

\* a / n rounded to the nearest integer, ties to even (n > 0)
RoundDiv(a, n) ==
    LET q == a \div n
        r == a % n
    IN  IF 2 * r < n THEN q
        ELSE IF 2 * r > n THEN q + 1
        ELSE IF q % 2 = 0 THEN q ELSE q + 1

FMul(a, b) == a * b
FAdd(a, b) == a + b
FDiv(a, n) == RoundDiv(a, n)

\* math.Floor(x / sensitivity)
FloorDiv(x, sensitivity) == x \div sensitivity

\* fmt "%.6f": the value in millionths of a degree
Format6(x) == x * 10
\* fmt "%.4f": the value in ten-thousandths of a degree, rounded
Format4(x) == RoundDiv(x, 10)

\* locationSensitivity: 0.001 in main()
DefaultSensitivity == 100
\* the slider runs from 0.0001 to 0.01
Sensitivities == {10, 20}

(***************************************************************************)
(* SpatialGrid                                                             *)
(***************************************************************************)
\* the key "no-location", which no "%.6f,%.6f" key equals
NoLocationKey == <<-1, -1, -1>>

NewSpatialGrid(sensitivity) ==
    [cells |-> <<>>, sensitivity |-> sensitivity]

\* GetGridKey with the cell index rounded to nearest instead of floored
GetGridKeyRounded(sg, lat, lng) ==
    LET gridLat == FMul(RoundDiv(lat, sg.sensitivity), sg.sensitivity)
        gridLng == FMul(RoundDiv(lng, sg.sensitivity), sg.sensitivity)
    IN  <<Format6(gridLat), Format6(gridLng), 0>>

GetGridKey(sg, lat, lng) ==
    LET gridLat == FMul(FloorDiv(lat, sg.sensitivity), sg.sensitivity)
        gridLng == FMul(FloorDiv(lng, sg.sensitivity), sg.sensitivity)
    IN  <<Format6(gridLat), Format6(gridLng), 0>>

\* the cell stored in a map made anew, which drops the other cells
PutCellInNewMap(sg, key, cell) ==
    [sg EXCEPT !.cells = [k \in {key} |-> cell]]

\* sg.cells[key] = cell
PutCell(sg, key, cell) ==
    [sg EXCEPT !.cells = [k \in (DOMAIN sg.cells) \cup {key} |->
                             IF k = key THEN cell ELSE sg.cells[k]]]

\* addToNoLocationCluster without cell.Count++
addToNoLocationClusterUncounted(sg, imagePath) ==
    IF NoLocationKey \in DOMAIN sg.cells
    THEN LET cell == sg.cells[NoLocationKey] IN
         PutCell(sg, NoLocationKey, [cell EXCEPT !.Images = Append(@, imagePath)])
    ELSE PutCell(sg, NoLocationKey,
                 [CenterLat |-> 0, CenterLng |-> 0,
                  Images |-> <<imagePath>>, Count |-> 1])

addToNoLocationCluster(sg, imagePath) ==
    IF NoLocationKey \in DOMAIN sg.cells
    THEN LET cell == sg.cells[NoLocationKey] IN
         PutCell(sg, NoLocationKey,
                 [cell EXCEPT !.Images = Append(@, imagePath), !.Count = @ + 1])
    ELSE PutCell(sg, NoLocationKey,
                 [CenterLat |-> 0, CenterLng |-> 0,
                  Images |-> <<imagePath>>, Count |-> 1])

\* the weighted-center update with the old center weighted by the new count
UpdateCenterOffByOne(center, count, value) ==
    FDiv(FAdd(FMul(center, count), value), count)

\* (center*float64(cell.Count-1) + value) / float64(cell.Count), cell.Count
\* already incremented
UpdateCenter(center, count, value) ==
    FDiv(FAdd(FMul(center, count - 1), value), count)

AddImage(sg, info) ==
    IF ~info.HasGPS
    THEN addToNoLocationCluster(sg, info.OriginalPath)
    ELSE LET key == GetGridKey(sg, info.Latitude, info.Longitude) IN
         IF key \in DOMAIN sg.cells
         THEN LET cell == sg.cells[key]
                  n == cell.Count + 1
              IN  PutCell(sg, key,
                      [CenterLat |-> UpdateCenter(cell.CenterLat, n, info.Latitude),
                       CenterLng |-> UpdateCenter(cell.CenterLng, n, info.Longitude),
                       Images    |-> Append(cell.Images, info.OriginalPath),
                       Count     |-> n])
         ELSE PutCell(sg, key,
                      [CenterLat |-> info.Latitude,
                       CenterLng |-> info.Longitude,
                       Images    |-> <<info.OriginalPath>>,
                       Count     |-> 1])

NoLocationName == [lat |-> 0, latDir |-> "No-Location", lng |-> 0, lngDir |-> "No-Location"]

\* formatLocation: "%.4f%s_%.4f%s" of the absolute values and N/S, E/W
formatLocation(lat, long) ==
    [lat    |-> Format4(Abs(lat)),
     latDir |-> IF lat < 0 THEN "S" ELSE "N",
     lng    |-> Format4(Abs(long)),
     lngDir |-> IF long < 0 THEN "W" ELSE "E"]

\* the LocationCluster GetClusters builds for one cell
ClusterOf(sg, key) ==
    LET cell == sg.cells[key] IN
    [Name      |-> IF key = NoLocationKey THEN NoLocationName
                   ELSE formatLocation(cell.CenterLat, cell.CenterLng),
     CenterLat |-> cell.CenterLat,
     CenterLng |-> cell.CenterLng,
     Images    |-> cell.Images]

\* GetClusters ranges over the map: the clusters come in any order
GetClusters(sg) == {ClusterOf(sg, key) : key \in DOMAIN sg.cells}

Clear(sg) == [sg EXCEPT !.cells = <<>>]

(***************************************************************************)
(* WorkerPool                                                              *)
(***************************************************************************)
NewWorkerPool(count, size) ==
    [WorkerCount   |-> count,
     bufferSize    |-> size,        \* capacity of Jobs and of Results
     Jobs          |-> <<>>,
     jobsClosed    |-> FALSE,       \* close(wp.Jobs) has been executed
     Results       |-> <<>>,
     resultsCloses |-> 0,           \* number of close(wp.Results) executed
     closed        |-> FALSE,
     wg            |-> 0]

\* Start: wg.Add(1) and go app.worker(wp), WorkerCount times.
Start(p) == [p EXCEPT !.wg = p.WorkerCount]

StartedWorkers(p) ==
    [w \in Workers |-> IF w <= p.WorkerCount THEN "receive" ELSE "off"]

\* Submit with the closed check removed: sends whatever the state of the pool.
SubmitUnchecked(filePath) ==
    /\ Len(wp.Jobs) < wp.bufferSize \/ wp.jobsClosed
    /\ IF wp.jobsClosed
       THEN /\ panic' = "send on closed channel"
            /\ UNCHANGED wp
       ELSE /\ wp' = [wp EXCEPT !.Jobs = Append(@, filePath)]
            /\ UNCHANGED panic

\* Submit: if !wp.closed { wp.Jobs <- filePath }.  The send blocks while the
\* buffer is full and panics on a closed channel.
Submit(filePath) ==
    IF wp.closed
    THEN UNCHANGED <<wp, panic>>
    ELSE /\ Len(wp.Jobs) < wp.bufferSize \/ wp.jobsClosed
         /\ IF wp.jobsClosed
            THEN /\ panic' = "send on closed channel"
                 /\ UNCHANGED wp
            ELSE /\ wp' = [wp EXCEPT !.Jobs = Append(@, filePath)]
                 /\ UNCHANGED panic

\* Close: if !wp.closed { wp.closed = true; close(wp.Jobs) }.
Close ==
    IF wp.closed
    THEN UNCHANGED <<wp, panic>>
    ELSE IF wp.jobsClosed
         THEN /\ panic' = "close of closed channel"
              /\ wp' = [wp EXCEPT !.closed = TRUE]
         ELSE /\ wp' = [wp EXCEPT !.closed = TRUE, !.jobsClosed = TRUE]
              /\ UNCHANGED panic

\* Wait: wp.wg.Wait() returns when the counter is zero ...
WaitWakes == wp.wg = 0

\* ... then: if !wp.closed { close(wp.Results) }.
WaitTail ==
    IF wp.closed
    THEN UNCHANGED <<wp, panic>>
    ELSE /\ wp' = [wp EXCEPT !.resultsCloses = @ + 1]
         /\ panic' = IF wp.resultsCloses > 0 THEN "close of closed channel" ELSE panic

(***************************************************************************)
(* App.worker: for mediaFile := range pool.Jobs { ... pool.Results <- r }  *)
(***************************************************************************)
WorkerReceive(w) ==
    /\ Alive
    /\ wpc[w] = "receive"
    /\ wp.Jobs # <<>>
    /\ wjob' = [wjob EXCEPT ![w] = Head(wp.Jobs)]
    /\ wp' = [wp EXCEPT !.Jobs = Tail(@)]
    /\ wpc' = [wpc EXCEPT ![w] = "extract"]
    /\ UNCHANGED <<wres, fate, calls, panic, restVars>>

\* The range loop ends when Jobs is closed and drained; defer pool.wg.Done().
WorkerExit(w) ==
    /\ Alive
    /\ wpc[w] = "receive"
    /\ wp.Jobs = <<>>
    /\ wp.jobsClosed
    /\ wpc' = [wpc EXCEPT ![w] = "done"]
    /\ wp' = [wp EXCEPT !.wg = @ - 1]
    /\ UNCHANGED <<wjob, wres, fate, calls, panic, restVars>>

WorkerExtract(w) ==
    /\ Alive
    /\ wpc[w] = "extract"
    /\ \E f \in Fates :
         /\ fate[wjob[w]] \in {"unknown", f}
         /\ (fate[wjob[w]] = "unknown" /\ f # "readable") => MayFail
         /\ fate' = [fate EXCEPT ![wjob[w]] = f]
         /\ calls' = [calls EXCEPT ![wjob[w]].worker = @ + 1]
         /\ LET r == ExtractWithFate(wjob[w], f) IN
            IF r.kind = "panic"
            THEN /\ panic' = "nil pointer dereference"
                 /\ UNCHANGED <<wpc, wres>>
            ELSE /\ wres' = [wres EXCEPT ![w] = ProcessingResult(wjob[w], r)]
                 /\ wpc' = [wpc EXCEPT ![w] = "send"]
                 /\ UNCHANGED panic
    /\ UNCHANGED <<wp, wjob, restVars>>

WorkerSend(w) ==
    /\ Alive
    /\ wpc[w] = "send"
    /\ Len(wp.Results) < wp.bufferSize \/ wp.resultsCloses > 0
    /\ IF wp.resultsCloses > 0
       THEN /\ panic' = "send on closed channel"
            /\ UNCHANGED <<wp, wpc, wjob, wres>>
       ELSE /\ wp' = [wp EXCEPT !.Results = Append(@, wres[w])]
            /\ wpc' = [wpc EXCEPT ![w] = "receive"]
            /\ wjob' = [wjob EXCEPT ![w] = NoFile]
            /\ wres' = [wres EXCEPT ![w] = NoResult]
            /\ UNCHANGED panic
    /\ UNCHANGED <<fate, calls, restVars>>

(***************************************************************************)
(* The caller of SpecPool: one goroutine using the pool's methods in any   *)
(* order.                                                                  *)
(***************************************************************************)
CallerSubmitCall ==
    /\ Alive
    /\ cpc = "ready"
    /\ nextJob <= MaxJobs
    /\ cpc' = "submit"
    /\ cjob' = nextJob
    /\ nextJob' = nextJob + 1
    /\ UNCHANGED <<wp, workerVars, panic, submitted, rejected, collected,
                   waitReturned, gridVars, runVars>>

CallerSubmitReturn ==
    /\ Alive
    /\ cpc = "submit"
    /\ Submit(cjob)
    /\ cpc' = "ready"
    /\ cjob' = NoFile
    /\ IF wp.closed
       THEN rejected' = rejected \cup {cjob} /\ UNCHANGED submitted
       ELSE submitted' = submitted \cup {cjob} /\ UNCHANGED rejected
    /\ UNCHANGED <<workerVars, nextJob, collected, waitReturned, gridVars, runVars>>

CallerClose ==
    /\ Alive
    /\ cpc = "ready"
    /\ Close
    /\ UNCHANGED <<workerVars, callerVars, gridVars, runVars>>

CallerWaitCall ==
    /\ Alive
    /\ cpc = "ready"
    /\ ~waitReturned
    /\ cpc' = "wait"
    /\ UNCHANGED <<wp, workerVars, panic, cjob, nextJob, submitted, rejected,
                   collected, waitReturned, gridVars, runVars>>

CallerWaitReturn ==
    /\ Alive
    /\ cpc = "wait"
    /\ WaitWakes
    /\ WaitTail
    /\ cpc' = "ready"
    /\ waitReturned' = TRUE
    /\ UNCHANGED <<workerVars, cjob, nextJob, submitted, rejected, collected,
                   gridVars, runVars>>

CallerReceive ==
    /\ Alive
    /\ cpc = "ready"
    /\ wp.Results # <<>>
    /\ collected' = [collected EXCEPT ![Head(wp.Results).path] = @ + 1]
    /\ wp' = [wp EXCEPT !.Results = Tail(@)]
    /\ UNCHANGED <<workerVars, panic, cpc, cjob, nextJob, submitted, rejected,
                   waitReturned, gridVars, runVars>>

ZeroTally == [copied |-> 0, skipped |-> 0, errored |-> 0]

\* no call of SpecExtract
\* extractImageInfo has not returned
NotCalled == [kind |-> "none"]

\* no file name is parsed
InitNoParse ==
    /\ filename = <<>>
    /\ parsed = NotCalled

\* no tree is walked
InitNoWalk ==
    /\ walkTree = <<>>
    /\ walkPos = 0
    /\ walkFound = <<>>
    /\ walkErr = FALSE

\* no line is logged
InitNoLog ==
    /\ lb = [lines |-> <<>>, maxLines |-> 0, current |-> 0, full |-> FALSE]
    /\ added = <<>>
    /\ shown = <<>>

\* no timer was started
InitNoTimer ==
    /\ logUpdateTimer = "none"
    /\ tick = FALSE
    /\ tpc = "off"
    /\ tlines = <<>>
    /\ upc = "off"
    /\ ulines = <<>>
    /\ logText = <<>>

\* Start has not been pressed
InitNoOverlap ==
    /\ InitNoTimer
    /\ started = 0
    /\ opc = <<>>
    /\ olocal = <<>>
    /\ pools = <<>>
    /\ globalWorkerPool = 0
    /\ grids = <<>>
    /\ gridField = 0
    /\ counters = [processedFiles |-> 0, totalFiles |-> 0]
    /\ opanic = FALSE

InitNoExtract ==
    /\ InitNoOverlap
    /\ exIn = <<>>
    /\ exOut = NotCalled
    /\ InitNoParse
    /\ InitNoWalk
    /\ InitNoLog

\* no run has been started
InitRunVars(b, n, files, starts, tree) ==
    /\ clicks = starts
    /\ batchSize = b
    /\ workerCount = n
    /\ srcCount = files
    /\ walkFate = "unknown"
    /\ rpc = "idle"
    /\ run = 0
    /\ mediaFiles = <<>>
    /\ batchStart = 0
    /\ batchEnd = 0
    /\ sub = 0
    /\ got = 0
    /\ imageInfos = <<>>
    /\ errorCount = 0
    /\ processedFiles = 0
    /\ totalFiles = 0
    /\ batches = <<>>
    /\ warned = {}
    /\ finalClusters = <<>>
    /\ ci = 0
    /\ clusterImageInfos = <<>>
    /\ ck = 0
    /\ copiedCount = 0
    /\ skippedCount = 0
    /\ tally = ZeroTally
    /\ fs = tree
    /\ dirs = {e.dir : e \in tree}
    /\ badDirs = {}
    /\ copyFate = [f \in AllFiles |-> "unknown"]
    /\ copyLog = {}
    /\ findErrors = 0

InitCaller ==
    /\ cpc = "ready"
    /\ cjob = NoFile
    /\ nextJob = 1
    /\ submitted = {}
    /\ rejected = {}
    /\ collected = [f \in Files |-> 0]
    /\ waitReturned = FALSE

InitWorkers(p) ==
    /\ wpc = StartedWorkers(p)
    /\ wjob = [w \in Workers |-> NoFile]
    /\ wres = [w \in Workers |-> NoResult]
    /\ fate = [f \in AllFiles |-> "unknown"]
    /\ calls = NoCalls
    /\ srcLayout = OneCell

InitPool ==
    /\ \E n \in 1..MaxWorkers, size \in 1..MaxBuffer :
         wp = Start(NewWorkerPool(n, size))
    /\ InitWorkers(wp)
    /\ panic = "none"
    /\ InitCaller
    /\ spatialGrid = NewSpatialGrid(DefaultSensitivity)
    /\ inserted = <<>>
    /\ InitRunVars(1, wp.WorkerCount, 0, 0, {})
    /\ InitNoExtract

NextPool ==
    \/ \E w \in Workers : WorkerReceive(w)
    \/ \E w \in Workers : WorkerExit(w)
    \/ \E w \in Workers : WorkerExtract(w)
    \/ \E w \in Workers : WorkerSend(w)
    \/ CallerSubmitCall
    \/ CallerSubmitReturn
    \/ CallerClose
    \/ CallerWaitCall
    \/ CallerWaitReturn
    \/ CallerReceive

SpecPool == InitPool /\ [][NextPool]_vars

(***************************************************************************)
(* SpecGrid: any sequence of at most MaxAdds AddImage calls on a fresh     *)
(* grid.                                                                   *)
(***************************************************************************)
GridLats == {-1, 4, 6, 9, 11}
GridLngs == {3, 13}

GridInfos(path) ==
    {[OriginalPath |-> path, HasGPS |-> TRUE, Latitude |-> lat, Longitude |-> lng] :
        lat \in GridLats, lng \in GridLngs}
    \cup {[OriginalPath |-> path, HasGPS |-> FALSE, Latitude |-> 0, Longitude |-> 0]}

GridAddImage ==
    /\ Len(inserted) < MaxAdds
    /\ \E info \in GridInfos(Len(inserted) + 1) :
         /\ spatialGrid' = AddImage(spatialGrid, info)
         /\ inserted' = Append(inserted, info)
    /\ UNCHANGED <<wp, workerVars, panic, callerVars, runVars>>

GridClear ==
    /\ inserted # <<>>
    /\ spatialGrid' = Clear(spatialGrid)
    /\ inserted' = <<>>
    /\ UNCHANGED <<wp, workerVars, panic, callerVars, runVars>>

InitGrid ==
    /\ \E sensitivity \in Sensitivities : spatialGrid = NewSpatialGrid(sensitivity)
    /\ inserted = <<>>
    /\ wp = NewWorkerPool(1, 1)
    /\ wpc = [w \in Workers |-> "off"]
    /\ wjob = [w \in Workers |-> NoFile]
    /\ wres = [w \in Workers |-> NoResult]
    /\ fate = [f \in AllFiles |-> "unknown"]
    /\ calls = NoCalls
    /\ srcLayout = OneCell
    /\ panic = "none"
    /\ InitCaller
    /\ InitRunVars(1, 1, 0, 0, {})
    /\ InitNoExtract

NextGrid ==
    \/ GridAddImage
    \/ GridClear

SpecGrid == InitGrid /\ [][NextGrid]_vars

(***************************************************************************)
(* extractDateFromFilename.  A file name is a sequence of characters.  In  *)
(* a pattern "#" stands for \d and "(" and ")" delimit a group; every      *)
(* pattern of the source has a fixed length, so its leftmost match is the  *)
(* first position at which it matches.  A layout is the sequence of the    *)
(* chunks time.Parse cuts it into.  An instant is a day number relative to *)
(* 1970-01-01 and a second of that day, in UTC.                            *)
(***************************************************************************)
DigitChars == <<"0", "1", "2", "3", "4", "5", "6", "7", "8", "9">>

IsDigit(c) == \E i \in 1..10 : DigitChars[i] = c

DigitValue(c) == (CHOOSE i \in 1..10 : DigitChars[i] = c) - 1

AllDigits(s) == \A i \in 1..Len(s) : IsDigit(s[i])

\* strconv.ParseInt / the digits read by time.Parse
RECURSIVE Atoi(_)
Atoi(s) ==
    IF s = <<>> THEN 0
    ELSE Atoi(SubSeq(s, 1, Len(s) - 1)) * 10 + DigitValue(s[Len(s)])

\* filepath.Ext: the suffix beginning at the last dot
LastDot(s) ==
    IF \E i \in 1..Len(s) : s[i] = "."
    THEN CHOOSE i \in 1..Len(s) : s[i] = "." /\ \A j \in (i + 1)..Len(s) : s[j] # "."
    ELSE 0

\* strings.TrimSuffix(filename, filepath.Ext(filename))
TrimExt(s) == IF LastDot(s) = 0 THEN s ELSE SubSeq(s, 1, LastDot(s) - 1)

RECURSIVE Repeat(_, _)
Repeat(c, n) == IF n = 0 THEN <<>> ELSE <<c>> \o Repeat(c, n - 1)

\* (\d{n})
DigitGroup(n) == <<"(">> \o Repeat("#", n) \o <<")">>

YmdGroups(sep) == DigitGroup(4) \o sep \o DigitGroup(2) \o sep \o DigitGroup(2)

HmsGroups(sep) == DigitGroup(2) \o sep \o DigitGroup(2) \o sep \o DigitGroup(2)

\* the patterns, in the order of the source
Patterns ==
    << [name   |-> "iPhone",
        regex  |-> <<"I", "M", "G", "_">> \o DigitGroup(8) \o <<"_">> \o DigitGroup(6),
        layout |-> <<"2006", "01", "02", "_", "15", "04", "05">>],
       [name   |-> "Android",
        regex  |-> DigitGroup(8) \o <<"_">> \o DigitGroup(6),
        layout |-> <<"2006", "01", "02", "_", "15", "04", "05">>],
       [name   |-> "Screenshot",
        regex  |-> <<"S", "c", "r", "e", "e", "n", "s", "h", "o", "t", "_">>
                      \o DigitGroup(8) \o <<"-">> \o DigitGroup(6),
        layout |-> <<"2006", "01", "02", "-", "15", "04", "05">>],
       [name   |-> "WhatsApp",
        regex  |-> YmdGroups(<<"-">>) \o <<" ", "a", "t", " ">> \o HmsGroups(<<".">>),
        layout |-> <<"2006", "-", "01", "-", "02", " ", "a", "t", " ",
                     "15", ".", "04", ".", "05">>],
       [name   |-> "Generic",
        regex  |-> DigitGroup(8),
        layout |-> <<"2006", "01", "02">>],
       [name   |-> "ISO",
        regex  |-> YmdGroups(<<"-">>) \o <<"T">> \o HmsGroups(<<"-">>),
        layout |-> <<"2006", "-", "01", "-", "02", "T", "15", "-", "04", "-", "05">>],
       [name   |-> "Unix",
        regex  |-> <<"^">> \o DigitGroup(10) \o <<"$">>,
        layout |-> <<"unix">>] >>

\* the characters and classes a regex matches, without its groups and anchors
Plain(regex) == SelectSeq(regex, LAMBDA t : t \notin {"(", ")", "^", "$"})

Anchored(regex) == regex # <<>> /\ Head(regex) = "^"

MatchesAt(s, i, regex) ==
    LET q == Plain(regex) IN
    /\ i + Len(q) - 1 <= Len(s)
    /\ \A j \in 1..Len(q) :
          IF q[j] = "#" THEN IsDigit(s[i + j - 1]) ELSE s[i + j - 1] = q[j]
    /\ Anchored(regex) => (i = 1 /\ Len(q) = Len(s))

\* regex.MatchString
MatchString(s, regex) == \E i \in 1..Len(s) : MatchesAt(s, i, regex)

\* where the leftmost match begins
MatchStart(s, regex) ==
    CHOOSE i \in 1..Len(s) :
        MatchesAt(s, i, regex) /\ \A j \in 1..(i - 1) : ~MatchesAt(s, j, regex)

\* the groups of the match of regex that begins at position at of s
RECURSIVE Submatches(_, _, _, _)
Submatches(s, at, regex, open) ==
    IF regex = <<>> THEN <<>>
    ELSE LET t == Head(regex) IN
         CASE t \in {"^", "$"} -> Submatches(s, at, Tail(regex), open)
           [] t = "(" -> Submatches(s, at, Tail(regex), at)
           [] t = ")" -> <<SubSeq(s, open, at - 1)>>
                            \o Submatches(s, at, Tail(regex), open)
           [] OTHER   -> Submatches(s, at + 1, Tail(regex), open)

\* regex.FindStringSubmatch, matches[1:]
FindStringSubmatch(s, regex) == Submatches(s, MatchStart(s, regex), regex, 0)

RECURSIVE Join(_, _)
Join(parts, sep) ==
    IF parts = <<>> THEN <<>>
    ELSE IF Len(parts) = 1 THEN parts[1]
    ELSE parts[1] \o sep \o Join(Tail(parts), sep)

Contains(layout, c) == \E i \in 1..Len(layout) : layout[i] = c

\* the separator placed between the date and the time group always "_"
SeparatorUnderscore(layout) == <<"_">>

\* separator := "_"; "-" when the layout contains one
Separator(layout) == IF Contains(layout, "-") THEN <<"-">> ELSE <<"_">>

\* the string handed to time.Parse
DateStr(pattern, matches) ==
    CASE pattern.name = "WhatsApp" ->
            Join(SubSeq(matches, 1, 3), <<"-">>) \o <<" ", "a", "t", " ">>
               \o Join(SubSeq(matches, 4, 6), <<".">>)
      [] pattern.name = "ISO" ->
            Join(SubSeq(matches, 1, 3), <<"-">>) \o <<"T">>
               \o Join(SubSeq(matches, 4, 6), <<"-">>)
      [] Contains(pattern.layout, "_") \/ Contains(pattern.layout, "-") ->
            IF Len(matches) >= 2
            THEN matches[1] \o Separator(pattern.layout) \o matches[2]
            ELSE Join(matches, <<>>)
      [] OTHER -> Join(matches, <<>>)

NoFields == [ok |-> TRUE, year |-> 0, month |-> 1, day |-> 1,
             hour |-> 0, min |-> 0, sec |-> 0]

Field(chunk) ==
    CASE chunk = "2006" -> "year" [] chunk = "01" -> "month" [] chunk = "02" -> "day"
      [] chunk = "15" -> "hour" [] chunk = "04" -> "min" [] OTHER -> "sec"

\* the digits time.Parse reads for a chunk: four for the year, two for the
\* others, one for an hour followed by a non-digit; 0 when they are missing
ChunkWidth(chunk, value) ==
    CASE chunk = "2006" ->
            IF Len(value) >= 4 /\ AllDigits(SubSeq(value, 1, 4)) THEN 4 ELSE 0
      [] chunk = "15" ->
            IF value = <<>> \/ ~IsDigit(value[1]) THEN 0
            ELSE IF Len(value) >= 2 /\ IsDigit(value[2]) THEN 2 ELSE 1
      [] OTHER ->
            IF Len(value) >= 2 /\ AllDigits(SubSeq(value, 1, 2)) THEN 2 ELSE 0

RECURSIVE ParseFields(_, _, _)
ParseFields(layout, value, fields) ==
    IF layout = <<>>
    THEN [fields EXCEPT !.ok = (value = <<>>)]
    ELSE LET chunk == Head(layout) IN
         IF chunk \in {"2006", "01", "02", "15", "04", "05"}
         THEN LET w == ChunkWidth(chunk, value) IN
              IF w = 0 THEN [fields EXCEPT !.ok = FALSE]
              ELSE ParseFields(Tail(layout), SubSeq(value, w + 1, Len(value)),
                               [fields EXCEPT ![Field(chunk)] = Atoi(SubSeq(value, 1, w))])
         ELSE IF value # <<>> /\ Head(value) = chunk
              THEN ParseFields(Tail(layout), Tail(value), fields)
              ELSE [fields EXCEPT !.ok = FALSE]

IsLeap(year) == year % 4 = 0 /\ (year % 100 # 0 \/ year % 400 = 0)

DaysIn(month, year) ==
    CASE month = 2 -> IF IsLeap(year) THEN 29 ELSE 28
      [] month \in {4, 6, 9, 11} -> 30
      [] OTHER -> 31

\* the day number of a civil date, 1970-01-01 being day 0
DaysFromCivil(year, month, day) ==
    LET y == IF month <= 2 THEN year - 1 ELSE year
        era == y \div 400
        yoe == y - era * 400
        mp == IF month > 2 THEN month - 3 ELSE month + 9
        doy == (153 * mp + 2) \div 5 + day - 1
        doe == yoe * 365 + yoe \div 4 - yoe \div 100 + doy
    IN  era * 146097 + doe - 719468

SecondsPerDay == 86400

Civil(year, month, day, hour, min, sec) ==
    [days |-> DaysFromCivil(year, month, day), secs |-> hour * 3600 + min * 60 + sec]

\* time.Unix(timestamp, 0)
Unix(timestamp) ==
    [days |-> timestamp \div SecondsPerDay, secs |-> timestamp % SecondsPerDay]

NotFound == [found |-> FALSE]

Found(t) == [found |-> TRUE, t |-> t]

\* time.Parse(layout, value): the ranges it checks after reading the fields
TimeParse(layout, value) ==
    LET f == ParseFields(layout, value, NoFields) IN
    IF /\ f.ok
       /\ f.month \in 1..12
       /\ f.hour < 24 /\ f.min < 60 /\ f.sec < 60
       /\ f.day >= 1 /\ f.day <= DaysIn(f.month, f.year)
    THEN Found(Civil(f.year, f.month, f.day, f.hour, f.min, f.sec))
    ELSE NotFound

\* what one pattern makes of its match
ParseMatch(basename, pattern) ==
    LET matches == FindStringSubmatch(basename, pattern.regex) IN
    IF pattern.layout = <<"unix">>
    THEN Found(Unix(Atoi(matches[1])))
    ELSE TimeParse(pattern.layout, DateStr(pattern, matches))

\* the loop over the patterns: a pattern that matches and parses returns, any
\* other leaves the decision to the patterns after it
RECURSIVE TryPatterns(_, _)
TryPatterns(basename, patterns) ==
    IF patterns = <<>> THEN NotFound
    ELSE IF MatchString(basename, Head(patterns).regex)
            /\ ParseMatch(basename, Head(patterns)).found
         THEN ParseMatch(basename, Head(patterns))
         ELSE TryPatterns(basename, Tail(patterns))

extractDateFromFilename(name) == TryPatterns(TrimExt(name), Patterns)

(***************************************************************************)
(* extractImageInfo alone: one call on one file, for every combination of  *)
(* what open, stat, the filename parser, the decoder and exiftool answer.  *)
(* A file name such as 00010101.jpg parses, with the layout 20060102, to   *)
(* the zero time.                                                          *)
(***************************************************************************)
Classes == {"DirectMetadata", "LimitedMetadata", "ExternalToolRequired"}

ExtractInputs ==
    {in \in [class         : Classes,
             openOK        : BOOLEAN,
             statOK        : BOOLEAN,
             modTime       : {2},
             filenameFound : BOOLEAN,
             filenameDate  : {ZeroTime, 3},
             embeddedDate  : {ZeroTime, 4},
             decodeOK      : BOOLEAN,
             toolDateOK    : BOOLEAN,
             toolGpsOK     : BOOLEAN,
             hasGpsTags    : BOOLEAN,
             lat           : {0, 5},
             lng           : {5}] :
        ~in.filenameFound => in.filenameDate = ZeroTime}

InitExtract ==
    /\ exIn \in ExtractInputs
    /\ exOut = NotCalled
    /\ InitNoOverlap
    /\ InitNoParse
    /\ InitNoWalk
    /\ InitNoLog
    /\ spatialGrid = NewSpatialGrid(DefaultSensitivity)
    /\ inserted = <<>>
    /\ wp = NewWorkerPool(1, 1)
    /\ wpc = [w \in Workers |-> "off"]
    /\ wjob = [w \in Workers |-> NoFile]
    /\ wres = [w \in Workers |-> NoResult]
    /\ fate = [f \in AllFiles |-> "unknown"]
    /\ calls = NoCalls
    /\ srcLayout = OneCell
    /\ panic = "none"
    /\ InitCaller
    /\ InitRunVars(1, 1, 0, 0, {})

ExtractCall ==
    /\ exOut = NotCalled
    /\ exOut' = ExtractRecord(1, exIn)
    /\ UNCHANGED <<exIn, parseVars, walkVars, logVars, overlapVars, uiVars, wp, panic,
                   workerVars, callerVars, gridVars, cfgVars, rpc, run,
                   loopVars, orgVars, tally, fsVars, findErrors>>

NextExtract == ExtractCall

SpecExtract == InitExtract /\ [][NextExtract]_vars

(***************************************************************************)
(* extractDateFromFilename alone: one call on one file name.  The names    *)
(* are written from dates and times, valid and not, in each of the forms   *)
(* the patterns were made for, and a few others.                           *)
(***************************************************************************)
RECURSIVE Fmt(_, _)
\* fmt.Sprintf("%0*d", width, n)
Fmt(n, width) ==
    IF width = 0 THEN <<>>
    ELSE Fmt(n \div 10, width - 1) \o <<DigitChars[(n % 10) + 1]>>

NameDates == [year : {2023, 2024}, month : {2, 12, 13}, day : {0, 29, 31}]

NameTimes == [hour : {0, 14, 25}, min : {30, 61}, sec : {22}]

ValidDate(d) == d.month \in 1..12 /\ d.day \in 1..DaysIn(d.month, d.year)

ValidTime(t) == t.hour < 24 /\ t.min < 60 /\ t.sec < 60

\* 1710508222 is the example of the README; the first eight digits of
\* 1700101234 read as 1700-10-12
UnixSeconds == {1000000000, 1700101234, 1710508222}

Exts == {<<>>, <<".", "j", "p", "g">>, <<".", "h", "e", "i", "c">>}

Ymd(d, sep) == Fmt(d.year, 4) \o sep \o Fmt(d.month, 2) \o sep \o Fmt(d.day, 2)

Hms(t, sep) == Fmt(t.hour, 2) \o sep \o Fmt(t.min, 2) \o sep \o Fmt(t.sec, 2)

IPhoneName(d, t) == <<"I", "M", "G", "_">> \o Ymd(d, <<>>) \o <<"_">> \o Hms(t, <<>>)

AndroidName(d, t) == Ymd(d, <<>>) \o <<"_">> \o Hms(t, <<>>)

ScreenshotName(d, t) ==
    <<"S", "c", "r", "e", "e", "n", "s", "h", "o", "t", "_">>
        \o Ymd(d, <<>>) \o <<"-">> \o Hms(t, <<>>)

WhatsAppName(d, t) ==
    <<"W", "h", "a", "t", "s", "A", "p", "p", " ", "I", "m", "a", "g", "e", " ">>
        \o Ymd(d, <<"-">>) \o <<" ", "a", "t", " ">> \o Hms(t, <<".">>)

ISOName(d, t) == Ymd(d, <<"-">>) \o <<"T">> \o Hms(t, <<"-">>)

GenericName(d) == Ymd(d, <<>>)

\* a name with a date in the generic form before a stamp in the ISO form
BackupStamp == ISOName([year |-> 2024, month |-> 12, day |-> 29],
                       [hour |-> 14, min |-> 30, sec |-> 22])

BackupName(d) == GenericName(d) \o <<" ">> \o BackupStamp

UnixName(n) == Fmt(n, 10)

Basenames ==
    {IPhoneName(d, t) : d \in NameDates, t \in NameTimes}
        \cup {AndroidName(d, t) : d \in NameDates, t \in NameTimes}
        \cup {ScreenshotName(d, t) : d \in NameDates, t \in NameTimes}
        \cup {WhatsAppName(d, t) : d \in NameDates, t \in NameTimes}
        \cup {ISOName(d, t) : d \in NameDates, t \in NameTimes}
        \cup {GenericName(d) : d \in NameDates}
        \cup {BackupName(d) : d \in NameDates}
        \cup {UnixName(n) : n \in UnixSeconds}
        \cup {<<"h", "o", "l", "i", "d", "a", "y">>}

Filenames == {b \o e : b \in Basenames, e \in Exts}

InitParse ==
    /\ filename \in Filenames
    /\ parsed = NotCalled
    /\ InitNoOverlap
    /\ exIn = <<>>
    /\ exOut = NotCalled
    /\ InitNoWalk
    /\ InitNoLog
    /\ spatialGrid = NewSpatialGrid(DefaultSensitivity)
    /\ inserted = <<>>
    /\ wp = NewWorkerPool(1, 1)
    /\ wpc = [w \in Workers |-> "off"]
    /\ wjob = [w \in Workers |-> NoFile]
    /\ wres = [w \in Workers |-> NoResult]
    /\ fate = [f \in AllFiles |-> "unknown"]
    /\ calls = NoCalls
    /\ srcLayout = OneCell
    /\ panic = "none"
    /\ InitCaller
    /\ InitRunVars(1, 1, 0, 0, {})

ParseCall ==
    /\ parsed = NotCalled
    /\ parsed' = extractDateFromFilename(filename)
    /\ UNCHANGED <<exIn, exOut, filename, walkVars, logVars, overlapVars, uiVars, wp, panic,
                   workerVars,
                   callerVars, gridVars,
                   cfgVars, rpc, run, loopVars, orgVars, tally, fsVars, findErrors>>

NextParse == ParseCall

SpecParse == InitParse /\ [][NextParse]_vars

(***************************************************************************)
(* findMediaFiles: filepath.Walk calls the callback once for every entry   *)
(* of the tree; an entry that is not a directory and whose extension, in   *)
(* lower case, is a key of imageExts is appended to mediaFiles.  A name is *)
(* a sequence of characters, as in extractDateFromFilename.                *)
(***************************************************************************)
MaxEntries == 2

UpperChars == <<"A", "B", "C", "D", "E", "F", "G", "H", "I", "J", "K", "L", "M",
                "N", "O", "P", "Q", "R", "S", "T", "U", "V", "W", "X", "Y", "Z">>

LowerChars == <<"a", "b", "c", "d", "e", "f", "g", "h", "i", "j", "k", "l", "m",
                "n", "o", "p", "q", "r", "s", "t", "u", "v", "w", "x", "y", "z">>

\* strings.ToLower
ToLower(s) ==
    [i \in 1..Len(s) |->
        IF \E k \in 1..26 : UpperChars[k] = s[i]
        THEN LowerChars[CHOOSE k \in 1..26 : UpperChars[k] = s[i]]
        ELSE s[i]]

\* filepath.Ext: the suffix of the name that starts at its last dot
Ext(s) == IF LastDot(s) = 0 THEN <<>> ELSE SubSeq(s, LastDot(s), Len(s))

\* the keys of the imageExts map of findMediaFiles
imageExts ==
    {
      <<".", "j", "p", "g">>, <<".", "j", "p", "e", "g">>, <<".", "p", "n", "g">>,
      <<".", "t", "i", "f", "f">>, <<".", "t", "i", "f">>, <<".", "b", "m", "p">>,
      <<".", "g", "i", "f">>, <<".", "h", "e", "i", "c">>, <<".", "h", "e", "i", "f">>,
      <<".", "a", "v", "i", "f">>, <<".", "w", "e", "b", "p">>, <<".", "d", "n", "g">>,
      <<".", "c", "r", "2">>, <<".", "n", "e", "f">>, <<".", "a", "r", "w">>,
      <<".", "m", "o", "v">>, <<".", "m", "p", "4">>, <<".", "m", "4", "v">>,
      <<".", "a", "v", "i">>, <<".", "m", "k", "v">>, <<".", "w", "m", "v">>,
      <<".", "w", "e", "b", "m">> }

\* the keys of the videoFormats map of extractImageInfo
videoFormats ==
    {
      <<".", "m", "o", "v">>, <<".", "m", "p", "4">>, <<".", "m", "4", "v">>,
      <<".", "a", "v", "i">>, <<".", "m", "k", "v">>, <<".", "w", "m", "v">>,
      <<".", "f", "l", "v">>, <<".", "w", "e", "b", "m">>, <<".", "3", "g", "p">>,
      <<".", "m", "t", "s">>, <<".", "m", "2", "t", "s">> }

\* the image, iPhone and RAW extensions the README lists as supported
ListedImageFormats ==
    {
      <<".", "j", "p", "g">>, <<".", "j", "p", "e", "g">>, <<".", "t", "i", "f", "f">>,
      <<".", "t", "i", "f">>, <<".", "p", "n", "g">>, <<".", "b", "m", "p">>,
      <<".", "g", "i", "f">>, <<".", "h", "e", "i", "c">>, <<".", "h", "e", "i", "f">>,
      <<".", "a", "v", "i", "f">>, <<".", "w", "e", "b", "p">>, <<".", "d", "n", "g">>,
      <<".", "c", "r", "2">>, <<".", "n", "e", "f">>, <<".", "a", "r", "w">> }

\* the callback's test of one entry
IsMediaFile(entry) == ~entry.isDir /\ ToLower(Ext(entry.name)) \in imageExts

\* the extensions of the file names walked: every key of the two maps, some
\* in upper case, and some that are no media extension
WalkExts ==
    imageExts \cup videoFormats \cup
    {
      <<".", "J", "P", "G">>, <<".", "M", "o", "v">>, <<".", "F", "L", "V">>,
      <<".", "t", "x", "t">>, <<".", "m", "p", "4", ".", "t", "x", "t">>, <<".", "j", "p", "g", ".">> }

WalkNames ==
    {<<"a">> \o e : e \in WalkExts} \cup {<<"m", "p", "4">>, <<".", "m", "p", "4">>}

\* err is the error filepath.Walk hands to the callback for this entry
WalkEntries ==
    [name : WalkNames, isDir : {FALSE}, err : {FALSE}] \cup
    [name : {<<"d">>, <<"d", ".", "j", "p", "g">>}, isDir : {TRUE}, err : BOOLEAN]

WalkTrees == UNION {[1..n -> WalkEntries] : n \in 1..MaxEntries}

\* the variables of a run, of the pool and of the grid, which a single call
\* of findMediaFiles or of a LogBuffer method does not touch
appVars == <<wp, panic, workerVars, callerVars, gridVars, cfgVars, rpc, run,
             loopVars, orgVars, tally, fsVars, findErrors>>

InitNoRun ==
    /\ InitNoOverlap
    /\ spatialGrid = NewSpatialGrid(DefaultSensitivity)
    /\ inserted = <<>>
    /\ wp = NewWorkerPool(1, 1)
    /\ wpc = [w \in Workers |-> "off"]
    /\ wjob = [w \in Workers |-> NoFile]
    /\ wres = [w \in Workers |-> NoResult]
    /\ fate = [f \in AllFiles |-> "unknown"]
    /\ calls = NoCalls
    /\ srcLayout = OneCell
    /\ panic = "none"
    /\ InitCaller
    /\ InitRunVars(1, 1, 0, 0, {})

InitWalk ==
    /\ walkTree \in WalkTrees
    /\ walkPos = 0
    /\ walkFound = <<>>
    /\ walkErr = FALSE
    /\ exIn = <<>>
    /\ exOut = NotCalled
    /\ InitNoParse
    /\ InitNoLog
    /\ InitNoRun

\* the callback returns the error it was given, which ends the walk
WalkError ==
    /\ ~walkErr
    /\ walkPos < Len(walkTree)
    /\ walkTree[walkPos + 1].err
    /\ walkErr' = TRUE
    /\ walkPos' = walkPos + 1
    /\ UNCHANGED <<walkTree, walkFound, exIn, exOut, parseVars, logVars, overlapVars,
                   uiVars, appVars>>

\* the callback appends the path of a media file and skips anything else
WalkEntry ==
    /\ ~walkErr
    /\ walkPos < Len(walkTree)
    /\ ~walkTree[walkPos + 1].err
    /\ walkPos' = walkPos + 1
    /\ walkFound' = IF IsMediaFile(walkTree[walkPos + 1])
                    THEN Append(walkFound, walkPos + 1)
                    ELSE walkFound
    /\ UNCHANGED <<walkTree, walkErr, exIn, exOut, parseVars, logVars, overlapVars,
                   uiVars, appVars>>

NextWalk ==
    \/ WalkError
    \/ WalkEntry

SpecWalk == InitWalk /\ [][NextWalk]_vars

(***************************************************************************)
(* LogBuffer: a slice of maxLines strings written round robin.  The Go     *)
(* index i of lines is the index i + 1 here.  Add and GetLines hold the    *)
(* buffer's mutex for their whole body, so each is one step.               *)
(***************************************************************************)
MaxCapacity == 3
MaxLogAdds == 5

LogLines == {"x", "y"}

NewLogBuffer(maxLines) ==
    [lines    |-> [i \in 1..maxLines |-> ""],
     maxLines |-> maxLines,
     current  |-> 0,
     full     |-> FALSE]

\* LogBuffer.Add without the full flag
AddNeverFull(b, line) ==
    [b EXCEPT !.lines = [b.lines EXCEPT ![b.current + 1] = line],
              !.current = (b.current + 1) % b.maxLines]

Add(b, line) ==
    LET next == (b.current + 1) % b.maxLines
    IN  [b EXCEPT !.lines = [b.lines EXCEPT ![b.current + 1] = line],
                  !.current = next,
                  !.full = IF next = 0 THEN TRUE ELSE b.full]

GetLines(b) ==
    IF ~b.full
    THEN SubSeq(b.lines, 1, b.current)
    ELSE SubSeq(b.lines, b.current + 1, b.maxLines) \o SubSeq(b.lines, 1, b.current)

InitLog ==
    /\ \E c \in 1..MaxCapacity : lb = NewLogBuffer(c)
    /\ added = <<>>
    /\ shown = <<>>
    /\ exIn = <<>>
    /\ exOut = NotCalled
    /\ InitNoParse
    /\ InitNoWalk
    /\ InitNoRun

LogAdd(line) ==
    /\ Len(added) < MaxLogAdds
    /\ lb' = Add(lb, line)
    /\ added' = Append(added, line)
    /\ UNCHANGED <<shown, exIn, exOut, parseVars, walkVars, overlapVars,
                   uiVars, appVars>>

LogGetLines ==
    /\ shown' = GetLines(lb)
    /\ UNCHANGED <<lb, added, exIn, exOut, parseVars, walkVars, overlapVars,
                   uiVars, appVars>>

NextLog ==
    \/ \E line \in LogLines : LogAdd(line)
    \/ LogGetLines

SpecLog == InitLog /\ [][NextLog]_vars

(***************************************************************************)
(* The run: startOrganizing, organizeImages, processFilesWithPool and      *)
(* organizeByLocationClusters, with the worker goroutines above.           *)
(***************************************************************************)
Range(seq) == {seq[i] : i \in 1..Len(seq)}

\* app.globalWorkerPool == nil
NilPool == NewWorkerPool(0, 0)

\* queues of half the batch size
PoolBufferSizeHalf(size) == size \div 2

\* NewWorkerPool(app.workerCount, app.batchSize*2): the capacity of both queues
PoolBufferSize(size) == size * 2

\* for batchStart := 0; ...; batchStart += app.batchSize, with a step one too long
NextBatchStartSkipping(start, size) == start + size + 1

\* for batchStart := 0; batchStart < totalFiles; batchStart += app.batchSize
NextBatchStart(start, size) == start + size

\* batchEnd taken two batch sizes after batchStart
BatchEndTwoSizes(start, size, total) ==
    IF start + 2 * size > total THEN total ELSE start + 2 * size

\* batchEnd := batchStart + app.batchSize, clamped to totalFiles
BatchEnd(start, size, total) ==
    IF start + size > total THEN total ELSE start + size

\* mediaFiles[batchStart:batchEnd]
BatchFiles == SubSeq(mediaFiles, batchStart + 1, batchEnd)

\* the collect loop stopping one result short
CollectCountShort(batchFiles) == Len(batchFiles) - 1

\* for i := 0; i < len(mediaFiles); i++ { result := <-Results ... }
CollectCount(batchFiles) == Len(batchFiles)

\* for _, info := range batchImageInfos { app.spatialGrid.AddImage(info) }
RECURSIVE FoldGrid(_, _)
FoldGrid(sg, infos) ==
    IF infos = <<>> THEN sg
    ELSE FoldGrid(AddImage(sg, Head(infos)), Tail(infos))

\* startOrganizing: resets the counters and the grid, starts organizeImages
startOrganizing ==
    /\ Alive
    /\ rpc \in {"idle", "done"}
    /\ run < clicks
    /\ run' = run + 1
    /\ processedFiles' = 0
    /\ totalFiles' = 0
    /\ spatialGrid' = NewSpatialGrid(spatialGrid.sensitivity)
    /\ batches' = <<>>
    /\ warned' = {}
    /\ tally' = ZeroTally
    /\ findErrors' = 0
    /\ calls' = NoCalls
    /\ rpc' = "find"
    /\ UNCHANGED <<wp, wpc, wjob, wres, fate, panic, callerVars, extractVars, inserted, cfgVars, mediaFiles,
                   batchStart, batchEnd, sub, got, imageInfos, errorCount, orgVars,
                   fsVars>>

\* organizeImages without the return after the error of findMediaFiles
RunFindErrorIgnored ==
    /\ Alive
    /\ rpc = "find"
    /\ walkFate \in {"unknown", "fails"}
    /\ walkFate = "unknown" => MayFail
    /\ walkFate' = "fails"
    /\ findErrors' = findErrors + 1
    /\ mediaFiles' = [i \in 1..srcCount |-> i]
    /\ totalFiles' = srcCount
    /\ wp' = Start(NewWorkerPool(workerCount, PoolBufferSize(batchSize)))
    /\ wpc' = StartedWorkers(wp')
    /\ batchStart' = 0
    /\ rpc' = "loop"
    /\ UNCHANGED <<wjob, wres, fate, calls, panic, callerVars, extractVars, gridVars, batchSize, workerCount,
                   srcCount, clicks, srcLayout, batchEnd, sub, got, imageInfos, errorCount, processedFiles,
                   batches, warned, orgVars, tally, run, fsVars>>

\* findMediaFiles fails: the error is logged and organizeImages returns
RunFindError ==
    /\ Alive
    /\ rpc = "find"
    /\ walkFate \in {"unknown", "fails"}
    /\ walkFate = "unknown" => MayFail
    /\ walkFate' = "fails"
    /\ findErrors' = findErrors + 1
    /\ rpc' = "cleanup"
    /\ UNCHANGED <<wp, workerVars, panic, callerVars, extractVars, gridVars, batchSize, workerCount,
                   srcCount, clicks, srcLayout, loopVars, orgVars, tally, run, fsVars>>

\* findMediaFiles succeeds: totalFiles, NewWorkerPool(workerCount, batchSize*2), Start
RunFind ==
    /\ Alive
    /\ rpc = "find"
    /\ walkFate \in {"unknown", "ok"}
    /\ walkFate' = "ok"
    /\ mediaFiles' = [i \in 1..srcCount |-> i]
    /\ totalFiles' = srcCount
    /\ wp' = Start(NewWorkerPool(workerCount, PoolBufferSize(batchSize)))
    /\ wpc' = StartedWorkers(wp')
    /\ batchStart' = 0
    /\ rpc' = "loop"
    /\ UNCHANGED <<wjob, wres, fate, calls, panic, callerVars, extractVars, gridVars, batchSize, workerCount,
                   srcCount, clicks, srcLayout, batchEnd, sub, got, imageInfos, errorCount, processedFiles,
                   batches, warned, orgVars, tally, run, fsVars, findErrors>>

\* head of the batch loop: the next batchFiles slice, entering processFilesWithPool
RunBatchHead ==
    /\ Alive
    /\ rpc = "loop"
    /\ batchStart < totalFiles
    /\ batchEnd' = BatchEnd(batchStart, batchSize, totalFiles)
    /\ batches' = Append(batches, SubSeq(mediaFiles, batchStart + 1, batchEnd'))
    /\ sub' = 0
    /\ got' = 0
    /\ imageInfos' = <<>>
    /\ errorCount' = 0
    /\ rpc' = "submit"
    /\ UNCHANGED <<wp, workerVars, panic, callerVars, extractVars, gridVars, cfgVars, mediaFiles,
                   batchStart, processedFiles, totalFiles, warned, orgVars, tally, run,
                   fsVars, findErrors>>

\* app.globalWorkerPool.Submit(mediaFile) for the next file of the batch
RunSubmit ==
    /\ Alive
    /\ rpc = "submit"
    /\ Submit(BatchFiles[sub + 1])
    /\ sub' = sub + 1
    /\ rpc' = IF sub + 1 = Len(BatchFiles) THEN "collect" ELSE "submit"
    /\ UNCHANGED <<workerVars, callerVars, extractVars, gridVars, cfgVars, mediaFiles, batchStart,
                   batchEnd, got, imageInfos, errorCount, processedFiles, totalFiles,
                   batches, warned, orgVars, tally, run, fsVars, findErrors>>

\* one iteration of the collect loop
RunCollect ==
    /\ Alive
    /\ rpc = "collect"
    /\ got < CollectCount(BatchFiles)
    /\ wp.Results # <<>>
    /\ LET result == Head(wp.Results) IN
       /\ wp' = [wp EXCEPT !.Results = Tail(@)]
       /\ processedFiles' = processedFiles + 1
       /\ IF result.error
          THEN /\ errorCount' = errorCount + 1
               /\ warned' = warned \cup {result.Info.OriginalPath}
               /\ UNCHANGED imageInfos
          ELSE /\ imageInfos' = Append(imageInfos, result.Info)
               /\ UNCHANGED <<errorCount, warned>>
    /\ got' = got + 1
    /\ UNCHANGED <<workerVars, panic, callerVars, extractVars, gridVars, cfgVars, mediaFiles,
                   batchStart, batchEnd, sub, totalFiles, batches, orgVars, tally, rpc,
                   run, fsVars, findErrors>>

\* processFilesWithPool returns; the batch is added to the grid and released
RunFold ==
    /\ Alive
    /\ rpc = "collect"
    /\ got >= CollectCount(BatchFiles)
    /\ tally' = [tally EXCEPT !.errored = @ + errorCount]
    /\ spatialGrid' = FoldGrid(spatialGrid, imageInfos)
    /\ imageInfos' = <<>>
    /\ batchStart' = NextBatchStart(batchStart, batchSize)
    /\ rpc' = "loop"
    /\ UNCHANGED <<wp, workerVars, panic, callerVars, extractVars, inserted, cfgVars, mediaFiles,
                   batchEnd, sub, got, errorCount, processedFiles, totalFiles, batches,
                   warned, orgVars, run, fsVars, findErrors>>

\* the lists a range over the cells map can produce
Orderings(S) ==
    {seq \in [1..Cardinality(S) -> S] :
        \A i, j \in 1..Cardinality(S) : seq[i] = seq[j] => i = j}

\* finalClusters := app.spatialGrid.GetClusters(app), entering the organizer
RunGetClusters ==
    /\ Alive
    /\ rpc = "loop"
    /\ batchStart >= totalFiles
    /\ finalClusters' \in Orderings(GetClusters(spatialGrid))
    /\ ci' = 1
    /\ rpc' = "organize"
    /\ UNCHANGED <<wp, workerVars, panic, callerVars, extractVars, gridVars, cfgVars, loopVars,
                   clusterImageInfos, ck, copiedCount, skippedCount, tally, run, fsVars,
                   findErrors>>

(***************************************************************************)
(* The output folder.  A directory is the pair of a location name and a    *)
(* day; a file is a directory, a name (base name and suffix counter, 0 for *)
(* none), the source it was copied from and whether the copy is whole.     *)
(***************************************************************************)
RootName == [lat |-> 0, latDir |-> "", lng |-> 0, lngDir |-> ""]
\* app.outputFolder itself
RootDir == [label |-> RootName, day |-> 0]

\* info.Date.Format("01-02-2006"): two consecutive times share a day
Day(date) == date \div 2

\* how a copy ends: whole; os.Create fails; a Write fails; a Read fails
CopyFates == {"ok", "create", "write", "read"}

\* the scan looking at the files directly under outputFolder only
ExistingFileMapOfRoot(files, name) == {e.name : e \in {x \in files : x.dir = RootDir}}

\* getExistingFiles(outputFolder/name): base names of the files under it
ExistingFileMap(files, name) == {e.name : e \in {x \in files : x.dir.label = name}}

\* createFolderStructure, given whether os.MkdirAll succeeds
createFolderStructure(info, mkdirOK) ==
    IF mkdirOK THEN [label |-> info.Location, day |-> Day(info.Date)] ELSE RootDir

NamesIn(files, destDir) == {e.name : e \in {x \in files : x.dir = destDir}}

\* the destination name without the existence test
DestNameOverwriting(files, src, destDir) == <<Base(src), 0>>

\* the destination name: filename, or name_<counter>.ext for the first free counter
DestName(files, src, destDir) ==
    IF <<Base(src), 0>> \notin NamesIn(files, destDir) THEN <<Base(src), 0>>
    ELSE <<Base(src),
           CHOOSE counter \in 1..(Cardinality(files) + 1) :
               /\ <<Base(src), counter>> \notin NamesIn(files, destDir)
               /\ \A c \in 1..(counter - 1) : <<Base(src), c>> \in NamesIn(files, destDir)>>

\* copyFile: the files afterwards and whether an error is returned
copyFile(files, src, destDir, outcome) ==
    LET entry == [dir |-> destDir, name |-> DestName(files, src, destDir),
                  src |-> src, complete |-> outcome = "ok"]
    IN  CASE outcome = "create" -> [fs |-> files, err |-> TRUE]
          [] outcome = "write"  -> [fs |-> files \cup {entry}, err |-> TRUE]
          [] OTHER              -> [fs |-> files \cup {entry}, err |-> FALSE]

\* the comparison given to sort.Slice
DateBefore(a, b) == a.Date < b.Date

\* one pass of the insertion sort sort.Slice uses for short slices: x moves
\* left while it is before its predecessor
InsertSorted(sorted, x) ==
    LET n == Cardinality({i \in 1..Len(sorted) : ~DateBefore(x, sorted[i])})
    IN  SubSeq(sorted, 1, n) \o <<x>> \o SubSeq(sorted, n + 1, Len(sorted))

RECURSIVE SortSlice(_, _)
SortSlice(sorted, rest) ==
    IF rest = <<>> THEN sorted
    ELSE SortSlice(InsertSorted(sorted, Head(rest)), Tail(rest))

WithLocation(r, name) ==
    [OriginalPath |-> r.OriginalPath, Date |-> r.Date, HasGPS |-> r.HasGPS,
     Latitude |-> r.Latitude, Longitude |-> r.Longitude, Location |-> name]

\* the files the first loop calls extractImageInfo for
Extracted(images, existingFileMap) ==
    {f \in Range(images) : <<Base(f), 0>> \notin existingFileMap}

\* the first loop over cluster.Images: skip what exists, extract the rest again
RECURSIVE ScanImages(_, _, _, _)
ScanImages(images, existingFileMap, name, fates) ==
    IF images = <<>> THEN [infos |-> <<>>, skippedCount |-> 0, panicked |-> FALSE]
    ELSE LET imagePath == Head(images)
             rest == ScanImages(Tail(images), existingFileMap, name, fates)
             r == ExtractWithFate(imagePath, fates[imagePath])
         IN  IF <<Base(imagePath), 0>> \in existingFileMap
             THEN [rest EXCEPT !.skippedCount = @ + 1]
             ELSE IF r.kind = "panic" THEN [rest EXCEPT !.panicked = TRUE]
             ELSE IF r.kind = "error" THEN [rest EXCEPT !.skippedCount = @ + 1]
             ELSE [rest EXCEPT !.infos = <<WithLocation(r, name)>> \o @]

\* organizeByLocationClusters, one cluster: scan, extract and sort
OrgClusterScan ==
    /\ Alive
    /\ rpc = "organize"
    /\ ci <= Len(finalClusters)
    /\ LET cluster == finalClusters[ci]
           scan == ScanImages(cluster.Images, ExistingFileMap(fs, cluster.Name),
                              cluster.Name, fate)
       IN  /\ IF scan.panicked
              THEN /\ panic' = "nil pointer dereference"
                   /\ UNCHANGED <<clusterImageInfos, skippedCount, copiedCount, ck, rpc>>
              ELSE /\ clusterImageInfos' = SortSlice(<<>>, scan.infos)
                   /\ skippedCount' = scan.skippedCount
                   /\ copiedCount' = 0
                   /\ ck' = 1
                   /\ rpc' = "copy"
                   /\ UNCHANGED panic
           /\ calls' = [f \in AllFiles |->
                          IF f \in Extracted(cluster.Images,
                                             ExistingFileMap(fs, cluster.Name))
                          THEN [calls[f] EXCEPT !.organizer = @ + 1]
                          ELSE calls[f]]
    /\ UNCHANGED <<wp, wpc, wjob, wres, fate, callerVars, extractVars, gridVars, cfgVars,
                   loopVars, finalClusters, ci, tally, run, fsVars, findErrors>>

\* the range loop left at the first failed copy
NextRecordOrBreak(k, err, n) == IF err THEN n + 1 ELSE k + 1

\* for _, info := range clusterImageInfos: on to the next record, whatever
\* copyFile returned
NextRecord(k, err, n) == k + 1

\* the second loop, one record: createFolderStructure and copyFile
OrgCopy ==
    /\ Alive
    /\ rpc = "copy"
    /\ ck <= Len(clusterImageInfos)
    /\ LET info == clusterImageInfos[ck]
           folderPath == createFolderStructure(info, TRUE)
       IN  \E mkdirOK \in BOOLEAN, outcome \in CopyFates :
             /\ folderPath \in dirs => mkdirOK
             /\ folderPath \in badDirs => ~mkdirOK
             /\ copyFate[info.OriginalPath] \in {"unknown", outcome}
             /\ (IF folderPath \notin badDirs /\ ~mkdirOK THEN 1 ELSE 0)
                  + (IF copyFate[info.OriginalPath] = "unknown" /\ outcome # "ok"
                     THEN 1 ELSE 0)
                  <= MaxFaults - Faults
             /\ dirs' = IF mkdirOK THEN dirs \cup {folderPath} ELSE dirs
             /\ badDirs' = IF mkdirOK THEN badDirs ELSE badDirs \cup {folderPath}
             /\ copyFate' = [copyFate EXCEPT ![info.OriginalPath] = outcome]
             /\ LET copy == copyFile(fs, info.OriginalPath,
                                     createFolderStructure(info, mkdirOK), outcome)
                IN  /\ fs' = copy.fs
                    /\ copyLog' = IF copy.err THEN copyLog \cup {info.OriginalPath}
                                  ELSE copyLog
                    /\ copiedCount' = IF copy.err THEN copiedCount ELSE copiedCount + 1
                    /\ ck' = NextRecord(ck, copy.err, Len(clusterImageInfos))
    /\ UNCHANGED <<wp, workerVars, panic, callerVars, extractVars, gridVars, cfgVars, loopVars,
                   finalClusters, ci, clusterImageInfos, skippedCount, tally, rpc, run,
                   findErrors>>

\* end of a cluster: "Cluster %s: %d files copied, %d files skipped"
OrgClusterDone ==
    /\ Alive
    /\ rpc = "copy"
    /\ ck > Len(clusterImageInfos)
    /\ tally' = [tally EXCEPT !.copied = @ + copiedCount, !.skipped = @ + skippedCount]
    /\ ci' = ci + 1
    /\ rpc' = "organize"
    /\ UNCHANGED <<wp, workerVars, panic, callerVars, extractVars, gridVars, cfgVars, loopVars,
                   finalClusters, clusterImageInfos, ck, copiedCount, skippedCount, run,
                   fsVars, findErrors>>

\* organizeByLocationClusters returns: final log, file explorer, spatialGrid.Clear()
RunFinish ==
    /\ Alive
    /\ rpc = "organize"
    /\ ci > Len(finalClusters)
    /\ spatialGrid' = Clear(spatialGrid)
    /\ rpc' = "cleanup"
    /\ UNCHANGED <<wp, workerVars, panic, callerVars, extractVars, inserted, cfgVars, loopVars,
                   orgVars, tally, run, fsVars, findErrors>>

\* the deferred cleanup: Close() when there is a pool
RunCleanupClose ==
    /\ Alive
    /\ rpc = "cleanup"
    /\ IF wp # NilPool
       THEN Close /\ rpc' = "wait"
       ELSE UNCHANGED <<wp, panic>> /\ rpc' = "done"
    /\ UNCHANGED <<workerVars, callerVars, extractVars, gridVars, cfgVars, loopVars, orgVars, tally,
                   run, fsVars, findErrors>>

\* ... Wait() ...
RunCleanupWait ==
    /\ Alive
    /\ rpc = "wait"
    /\ WaitWakes
    /\ WaitTail
    /\ rpc' = "release"
    /\ UNCHANGED <<workerVars, callerVars, extractVars, gridVars, cfgVars, loopVars, orgVars, tally,
                   run, fsVars, findErrors>>

\* ... app.globalWorkerPool = nil
RunCleanupRelease ==
    /\ Alive
    /\ rpc = "release"
    /\ wp' = NilPool
    /\ rpc' = "done"
    /\ UNCHANGED <<workerVars, panic, callerVars, extractVars, gridVars, cfgVars, loopVars, orgVars,
                   tally, run, fsVars, findErrors>>

\* the App after main() built it and the folders were chosen; the user will
\* press Start the given number of times, each time after the run before ended;
\* the output folder holds one of the given trees
\* ... and the source tree has one of the given layouts
InitAppIn(starts, trees, layouts) ==
    /\ \E b \in 1..MaxBatch, n \in 1..MaxWorkers, files \in 0..MaxFiles, tree \in trees :
         InitRunVars(b, n, files, starts, tree)
    /\ srcLayout \in layouts
    /\ InitNoExtract
    /\ wp = NilPool
    /\ wpc = [w \in Workers |-> "off"]
    /\ wjob = [w \in Workers |-> NoFile]
    /\ wres = [w \in Workers |-> NoResult]
    /\ fate = [f \in AllFiles |-> "unknown"]
    /\ calls = NoCalls
    /\ panic = "none"
    /\ InitCaller
    /\ spatialGrid = NewSpatialGrid(DefaultSensitivity)
    /\ inserted = <<>>

InitApp(starts, trees) == InitAppIn(starts, trees, {OneCell})

Init == InitApp(1, {{}})

Next ==
    \/ startOrganizing
    \/ RunFindError
    \/ RunFind
    \/ RunBatchHead
    \/ RunSubmit
    \/ RunCollect
    \/ RunFold
    \/ RunGetClusters
    \/ OrgClusterScan
    \/ OrgCopy
    \/ OrgClusterDone
    \/ RunFinish
    \/ RunCleanupClose
    \/ RunCleanupWait
    \/ RunCleanupRelease
    \/ \E w \in Workers : WorkerReceive(w)
    \/ \E w \in Workers : WorkerExit(w)
    \/ \E w \in Workers : WorkerExtract(w)
    \/ \E w \in Workers : WorkerSend(w)

\* one run
Spec == Init /\ [][Next]_vars

\* the same folders organized again and again
InitRerun == InitApp(MaxRuns, {{}})

SpecRerun == InitRerun /\ [][Next]_vars

\* one run into an output folder that already holds files: x.jpg under the
\* folder of the cell of files 1, 3 and 4, in the subfolder of another day,
\* and z.mp4 under No-Location
ForeignFile(label, day, name) ==
    [dir |-> [label |-> label, day |-> day], name |-> name, src |-> NoFile,
     complete |-> TRUE]

ExistingTrees ==
    {{ForeignFile(formatLocation(FileLat(1), FileLng(1)), 7, <<Base(1), 0>>),
      ForeignFile(NoLocationName, 1, <<Base(3), 0>>)}}

InitExisting == InitApp(1, ExistingTrees)

SpecExisting == InitExisting /\ [][Next]_vars

\* one run over a source tree in which two files of the same base name were
\* taken on the two sides of a cell boundary
InitStraddle == InitAppIn(1, {{}}, {TwoCells})

SpecStraddle == InitStraddle /\ [][Next]_vars

(***************************************************************************)
(* One run in which the exiftool process started for one file may never    *)
(* return: cmd.Output() has no timeout, and the worker that called it      *)
(* stays in extractImageInfo.  The Go scheduler runs every goroutine that  *)
(* can take a step, hence the weak fairness of the workers' steps.         *)
(***************************************************************************)
WorkerHang(w) ==
    /\ Alive
    /\ wpc[w] = "extract"
    /\ Class(wjob[w]) # "DirectMetadata"
    /\ fate[wjob[w]] \in {"unknown", "readable"}
    /\ \A v \in Workers : wpc[v] # "hung"
    /\ fate' = [fate EXCEPT ![wjob[w]] = "readable"]
    /\ calls' = [calls EXCEPT ![wjob[w]].worker = @ + 1]
    /\ wpc' = [wpc EXCEPT ![w] = "hung"]
    /\ UNCHANGED <<wp, wjob, wres, panic, restVars>>

NextHang ==
    \/ Next
    \/ \E w \in Workers : WorkerHang(w)

WorkerFairness ==
    \A w \in Workers :
        /\ WF_vars(WorkerReceive(w))
        /\ WF_vars(WorkerExtract(w))
        /\ WF_vars(WorkerSend(w))

SpecHang == Init /\ [][NextHang]_vars /\ WorkerFairness

(***************************************************************************)
(* One run under the Go scheduler: the goroutine of organizeImages and     *)
(* every worker goroutine take their next step when they can.  A goroutine *)
(* is sequential, so weak fairness of its steps taken together says this.  *)
(***************************************************************************)
organizeImagesStep ==
    \/ RunFindError
    \/ RunFind
    \/ RunBatchHead
    \/ RunSubmit
    \/ RunCollect
    \/ RunFold
    \/ RunGetClusters
    \/ OrgClusterScan
    \/ OrgCopy
    \/ OrgClusterDone
    \/ RunFinish
    \/ RunCleanupClose
    \/ RunCleanupWait
    \/ RunCleanupRelease

workerStep(w) ==
    \/ WorkerReceive(w)
    \/ WorkerExit(w)
    \/ WorkerExtract(w)
    \/ WorkerSend(w)

SchedulerFairness ==
    /\ WF_vars(organizeImagesStep)
    /\ \A w \in Workers : WF_vars(workerStep(w))

SpecScheduled == Init /\ [][Next]_vars /\ SchedulerFairness

(***************************************************************************)
(* Runs that overlap.  The Start button stays enabled during a run, so     *)
(* startOrganizing can be called again while an organizeImages goroutine   *)
(* is at work.  Every goroutine reads app.globalWorkerPool,                *)
(* app.spatialGrid and the two counters through the App each time it uses  *)
(* them.  A pool has workerCount workers; a worker's step takes a job and  *)
(* publishes its result.  A file is the pair of the run that submitted it  *)
(* and its position in mediaFiles.                                         *)
(***************************************************************************)
MaxStarts == 2
MaxOverlapFiles == 2

Nil == 0

NoLocals == [n |-> 0, batchStart |-> 0, batchEnd |-> 0, sub |-> 0, got |-> 0,
             infos |-> {}, made |-> Nil]

otherVars == <<appVars, exIn, exOut, parseVars, walkVars, logVars, uiVars>>

Running(r) == r <= started /\ opc[r] # "done"

InitOverlap ==
    /\ spatialGrid = NewSpatialGrid(DefaultSensitivity)
    /\ inserted = <<>>
    /\ wp = NewWorkerPool(1, 1)
    /\ wpc = [w \in Workers |-> "off"]
    /\ wjob = [w \in Workers |-> NoFile]
    /\ wres = [w \in Workers |-> NoResult]
    /\ fate = [f \in AllFiles |-> "unknown"]
    /\ calls = NoCalls
    /\ srcLayout = OneCell
    /\ panic = "none"
    /\ InitCaller
    /\ \E b \in 1..MaxBatch, files \in 1..MaxOverlapFiles : InitRunVars(b, 1, files, 0, {})
    /\ InitNoOverlap
    /\ exIn = <<>>
    /\ exOut = NotCalled
    /\ InitNoParse
    /\ InitNoWalk
    /\ InitNoLog

\* startOrganizing, whatever the earlier runs are doing: the counters are
\* reset, app.spatialGrid is a new grid, go app.organizeImages()
startOrganizingAnyTime ==
    /\ ~opanic
    /\ started < MaxStarts
    /\ started' = started + 1
    /\ counters' = [processedFiles |-> 0, totalFiles |-> 0]
    /\ grids' = Append(grids, {})
    /\ gridField' = Len(grids) + 1
    /\ opc' = Append(opc, "find")
    /\ olocal' = Append(olocal, NoLocals)
    /\ UNCHANGED <<pools, globalWorkerPool, opanic, otherVars>>

\* findMediaFiles; app.totalFiles = int64(len(mediaFiles))
OverlapFind(r) ==
    /\ ~opanic
    /\ r <= started /\ opc[r] = "find"
    /\ olocal' = [olocal EXCEPT ![r].n = srcCount]
    /\ counters' = [counters EXCEPT !.totalFiles = srcCount]
    /\ opc' = [opc EXCEPT ![r] = "pool"]
    /\ UNCHANGED <<started, pools, globalWorkerPool, grids, gridField, opanic, otherVars>>

\* app.globalWorkerPool = NewWorkerPool(...); app.globalWorkerPool.Start(app)
OverlapNewPool(r) ==
    /\ ~opanic
    /\ r <= started /\ opc[r] = "pool"
    /\ pools' = Append(pools, Start(NewWorkerPool(workerCount, PoolBufferSize(batchSize))))
    /\ globalWorkerPool' = Len(pools) + 1
    /\ olocal' = [olocal EXCEPT ![r].made = Len(pools) + 1]
    /\ opc' = [opc EXCEPT ![r] = "loop"]
    /\ UNCHANGED <<started, grids, gridField, counters, opanic, otherVars>>

\* the head of the batch loop, or its end
OverlapBatchHead(r) ==
    /\ ~opanic
    /\ r <= started /\ opc[r] = "loop"
    /\ IF olocal[r].batchStart < olocal[r].n
       THEN /\ olocal' = [olocal EXCEPT
                            ![r].batchEnd = BatchEnd(olocal[r].batchStart, batchSize,
                                                     olocal[r].n),
                            ![r].sub = 0, ![r].got = 0, ![r].infos = {}]
            /\ opc' = [opc EXCEPT ![r] = "submit"]
       ELSE /\ opc' = [opc EXCEPT ![r] = "organize"]
            /\ UNCHANGED olocal
    /\ UNCHANGED <<started, pools, globalWorkerPool, grids, gridField, counters, opanic,
                   otherVars>>

BatchLen(r) == olocal[r].batchEnd - olocal[r].batchStart

\* app.globalWorkerPool.Submit(mediaFile): the method reads wp.closed, which
\* is a nil pointer dereference when the field is nil
OverlapSubmit(r) ==
    /\ ~opanic
    /\ r <= started /\ opc[r] = "submit"
    /\ IF globalWorkerPool = Nil
       THEN /\ opanic' = TRUE
            /\ UNCHANGED <<pools, olocal, opc>>
       ELSE LET p == pools[globalWorkerPool]
                mediaFile == <<r, olocal[r].batchStart + olocal[r].sub + 1>>
            IN  /\ p.closed \/ Len(p.Jobs) < p.bufferSize
                /\ pools' = IF p.closed THEN pools
                            ELSE [pools EXCEPT ![globalWorkerPool].Jobs = Append(@, mediaFile)]
                /\ olocal' = [olocal EXCEPT ![r].sub = @ + 1]
                /\ opc' = [opc EXCEPT ![r] = IF olocal[r].sub + 1 = BatchLen(r)
                                             THEN "collect" ELSE "submit"]
                /\ UNCHANGED opanic
    /\ UNCHANGED <<started, globalWorkerPool, grids, gridField, counters, otherVars>>

\* result := <-app.globalWorkerPool.Results; app.incrementProcessedFiles()
OverlapCollect(r) ==
    /\ ~opanic
    /\ r <= started /\ opc[r] = "collect"
    /\ olocal[r].got < BatchLen(r)
    /\ IF globalWorkerPool = Nil
       THEN /\ opanic' = TRUE
            /\ UNCHANGED <<pools, olocal, counters>>
       ELSE LET p == pools[globalWorkerPool] IN
            /\ p.Results # <<>>
            /\ pools' = [pools EXCEPT ![globalWorkerPool].Results = Tail(@)]
            /\ olocal' = [olocal EXCEPT ![r].got = @ + 1,
                                        ![r].infos = @ \cup {Head(p.Results)}]
            /\ counters' = [counters EXCEPT !.processedFiles = @ + 1]
            /\ UNCHANGED opanic
    /\ UNCHANGED <<started, opc, globalWorkerPool, grids, gridField, otherVars>>

\* processFilesWithPool returns; app.spatialGrid.AddImage(info) for the batch
OverlapFold(r) ==
    /\ ~opanic
    /\ r <= started /\ opc[r] = "collect"
    /\ olocal[r].got >= BatchLen(r)
    /\ grids' = [grids EXCEPT ![gridField] = @ \cup olocal[r].infos]
    /\ olocal' = [olocal EXCEPT ![r].infos = {},
                                ![r].batchStart = NextBatchStart(@, batchSize)]
    /\ opc' = [opc EXCEPT ![r] = "loop"]
    /\ UNCHANGED <<started, pools, globalWorkerPool, gridField, counters, opanic, otherVars>>

\* GetClusters, organizeByLocationClusters, app.spatialGrid.Clear()
OverlapOrganize(r) ==
    /\ ~opanic
    /\ r <= started /\ opc[r] = "organize"
    /\ grids' = [grids EXCEPT ![gridField] = {}]
    /\ opc' = [opc EXCEPT ![r] = "cleanup"]
    /\ UNCHANGED <<started, olocal, pools, globalWorkerPool, gridField, counters, opanic,
                   otherVars>>

\* the deferred cleanup: if app.globalWorkerPool != nil { Close() ...
OverlapCleanupClose(r) ==
    /\ ~opanic
    /\ r <= started /\ opc[r] = "cleanup"
    /\ IF globalWorkerPool = Nil
       THEN /\ opc' = [opc EXCEPT ![r] = "done"]
            /\ UNCHANGED pools
       ELSE /\ pools' = [pools EXCEPT ![globalWorkerPool].closed = TRUE,
                                      ![globalWorkerPool].jobsClosed = TRUE]
            /\ opc' = [opc EXCEPT ![r] = "wait"]
    /\ UNCHANGED <<started, olocal, globalWorkerPool, grids, gridField, counters, opanic,
                   otherVars>>

\* ... app.globalWorkerPool.Wait() ...
OverlapCleanupWait(r) ==
    /\ ~opanic
    /\ r <= started /\ opc[r] = "wait"
    /\ IF globalWorkerPool = Nil
       THEN /\ opanic' = TRUE
            /\ UNCHANGED <<pools, opc>>
       ELSE LET p == pools[globalWorkerPool] IN
            /\ p.wg = 0
            /\ pools' = IF p.closed THEN pools
                        ELSE [pools EXCEPT ![globalWorkerPool].resultsCloses = @ + 1]
            /\ opc' = [opc EXCEPT ![r] = "release"]
            /\ UNCHANGED opanic
    /\ UNCHANGED <<started, olocal, globalWorkerPool, grids, gridField, counters, otherVars>>

\* ... app.globalWorkerPool = nil }
OverlapCleanupRelease(r) ==
    /\ ~opanic
    /\ r <= started /\ opc[r] = "release"
    /\ globalWorkerPool' = Nil
    /\ opc' = [opc EXCEPT ![r] = "done"]
    /\ UNCHANGED <<started, olocal, pools, grids, gridField, counters, opanic, otherVars>>

\* a worker of pool k takes a job, extracts and publishes the result
OverlapWorker(k) ==
    /\ ~opanic
    /\ k \in 1..Len(pools)
    /\ pools[k].wg > 0
    /\ pools[k].Jobs # <<>>
    /\ Len(pools[k].Results) < pools[k].bufferSize
    /\ pools' = [pools EXCEPT ![k].Jobs = Tail(@),
                              ![k].Results = Append(@, Head(pools[k].Jobs))]
    /\ UNCHANGED <<started, opc, olocal, globalWorkerPool, grids, gridField, counters, opanic,
                   otherVars>>

\* a worker of pool k leaves its range loop: Jobs is closed and empty
OverlapWorkerExit(k) ==
    /\ ~opanic
    /\ k \in 1..Len(pools)
    /\ pools[k].wg > 0
    /\ pools[k].jobsClosed
    /\ pools[k].Jobs = <<>>
    /\ pools' = [pools EXCEPT ![k].wg = @ - 1]
    /\ UNCHANGED <<started, opc, olocal, globalWorkerPool, grids, gridField, counters, opanic,
                   otherVars>>

NextOverlap ==
    \/ startOrganizingAnyTime
    \/ \E r \in 1..MaxStarts : OverlapFind(r)
    \/ \E r \in 1..MaxStarts : OverlapNewPool(r)
    \/ \E r \in 1..MaxStarts : OverlapBatchHead(r)
    \/ \E r \in 1..MaxStarts : OverlapSubmit(r)
    \/ \E r \in 1..MaxStarts : OverlapCollect(r)
    \/ \E r \in 1..MaxStarts : OverlapFold(r)
    \/ \E r \in 1..MaxStarts : OverlapOrganize(r)
    \/ \E r \in 1..MaxStarts : OverlapCleanupClose(r)
    \/ \E r \in 1..MaxStarts : OverlapCleanupWait(r)
    \/ \E r \in 1..MaxStarts : OverlapCleanupRelease(r)
    \/ \E k \in 1..MaxStarts : OverlapWorker(k)
    \/ \E k \in 1..MaxStarts : OverlapWorkerExit(k)

SpecOverlap == InitOverlap /\ [][NextOverlap]_vars

(***************************************************************************)
(* The log display.  startUIUpdateTimer starts a ticker and a goroutine    *)
(* that calls updateUIFromBuffer for every tick; the deferred function of  *)
(* organizeImages stops the ticker and calls updateUIFromBuffer itself.    *)
(* updateUIFromBuffer is two steps: GetLines under the buffer's lock, then *)
(* SetText with the lines joined.  Ticker.Stop sends no further tick; it   *)
(* neither empties the channel nor waits for the goroutine.                *)
(***************************************************************************)
idleVars == <<appVars, exIn, exOut, parseVars, walkVars, overlapVars>>

\* the state when startOrganizing has started the timer and organizeImages
InitTimer ==
    /\ \E c \in 1..MaxCapacity : lb = NewLogBuffer(c)
    /\ added = <<>>
    /\ shown = <<>>
    /\ logUpdateTimer = "running"
    /\ tick = FALSE
    /\ tpc = "range"
    /\ tlines = <<>>
    /\ upc = "run"
    /\ ulines = <<>>
    /\ logText = <<>>
    /\ exIn = <<>>
    /\ exOut = NotCalled
    /\ InitNoParse
    /\ InitNoWalk
    /\ spatialGrid = NewSpatialGrid(DefaultSensitivity)
    /\ inserted = <<>>
    /\ wp = NewWorkerPool(1, 1)
    /\ wpc = [w \in Workers |-> "off"]
    /\ wjob = [w \in Workers |-> NoFile]
    /\ wres = [w \in Workers |-> NoResult]
    /\ fate = [f \in AllFiles |-> "unknown"]
    /\ calls = NoCalls
    /\ srcLayout = OneCell
    /\ panic = "none"
    /\ InitCaller
    /\ InitRunVars(1, 1, 0, 0, {})
    /\ started = 0
    /\ opc = <<>>
    /\ olocal = <<>>
    /\ pools = <<>>
    /\ globalWorkerPool = 0
    /\ grids = <<>>
    /\ gridField = 0
    /\ counters = [processedFiles |-> 0, totalFiles |-> 0]
    /\ opanic = FALSE

\* the ticker sends a tick; its channel holds one
TickerFires ==
    /\ logUpdateTimer = "running"
    /\ ~tick
    /\ tick' = TRUE
    /\ UNCHANGED <<logUpdateTimer, tpc, tlines, upc, ulines, logText, logVars, idleVars>>

\* for range app.logUpdateTimer.C
TickReceive ==
    /\ tpc = "range"
    /\ tick
    /\ tick' = FALSE
    /\ tpc' = "lines"
    /\ UNCHANGED <<logUpdateTimer, tlines, upc, ulines, logText, logVars, idleVars>>

\* updateUIFromBuffer of the tick: lines := app.logBuffer.GetLines()
TickGetLines ==
    /\ tpc = "lines"
    /\ tlines' = GetLines(lb)
    /\ shown' = GetLines(lb)
    /\ tpc' = "text"
    /\ UNCHANGED <<logUpdateTimer, tick, upc, ulines, logText, lb, added, idleVars>>

\* ... app.logText.SetText(content)
TickSetText ==
    /\ tpc = "text"
    /\ logText' = tlines
    /\ tpc' = "range"
    /\ UNCHANGED <<logUpdateTimer, tick, tlines, upc, ulines, logVars, idleVars>>

\* organizeImages logs a line: app.safeLog
RunLogs(line) ==
    /\ upc = "run"
    /\ Len(added) < MaxLogAdds
    /\ lb' = Add(lb, line)
    /\ added' = Append(added, line)
    /\ UNCHANGED <<shown, uiVars, idleVars>>

\* organizeImages returns; deferred: app.stopUIUpdateTimer()
stopUIUpdateTimer ==
    /\ upc = "run"
    /\ logUpdateTimer' = "stopped"
    /\ upc' = "lines"
    /\ UNCHANGED <<tick, tpc, tlines, ulines, logText, logVars, idleVars>>

\* the final updateUIFromBuffer: GetLines
FinalGetLines ==
    /\ upc = "lines"
    /\ ulines' = GetLines(lb)
    /\ shown' = GetLines(lb)
    /\ upc' = "text"
    /\ UNCHANGED <<logUpdateTimer, tick, tpc, tlines, logText, lb, added, idleVars>>

\* ... SetText
FinalSetText ==
    /\ upc = "text"
    /\ logText' = ulines
    /\ upc' = "done"
    /\ UNCHANGED <<logUpdateTimer, tick, tpc, tlines, ulines, logVars, idleVars>>

NextTimer ==
    \/ TickerFires
    \/ TickReceive
    \/ TickGetLines
    \/ TickSetText
    \/ \E line \in LogLines : RunLogs(line)
    \/ stopUIUpdateTimer
    \/ FinalGetLines
    \/ FinalSetText

SpecTimer == InitTimer /\ [][NextTimer]_vars

(***************************************************************************)
(* Properties of the worker pool (SpecPool).                               *)
(***************************************************************************)
RECURSIVE CountPath(_, _)
CountPath(seq, j) ==
    IF seq = <<>> THEN 0
    ELSE (IF Head(seq).path = j THEN 1 ELSE 0) + CountPath(Tail(seq), j)

InJobs(j) == \E i \in 1..Len(wp.Jobs) : wp.Jobs[i] = j

\* results published for file j so far: still queued, or already received
Published(j) == CountPath(wp.Results, j) + collected[j]

\* the job is still on its way to a result
Pending(j) ==
    /\ Alive
    /\ \/ InJobs(j)
       \/ \E w \in Workers : wjob[w] = j /\ wpc[w] \in {"extract", "send"}

\* C1: every job passed to Submit while the pool is open gets exactly one
\* result: at any moment it has one published result, or it has none yet and
\* is still queued or held by a running worker that will publish it; it never
\* has two, and it is never lost without a result.
C1_ExactlyOneResultPerJob ==
    \A j \in submitted :
        \/ Published(j) = 1 /\ ~Pending(j)
        \/ Published(j) = 0 /\ Pending(j)

\* C2: once Wait() has returned (after Close() and the exit of every worker)
\* the result channel is closed, and it is closed exactly once.
C2_WaitClosesResultsOnce ==
    /\ waitReturned => wp.resultsCloses = 1
    /\ wp.resultsCloses <= 1
    /\ panic # "close of closed channel"

\* C3: a Submit made after Close() is a no-op: it returns without blocking
\* (whatever the fill of the job queue), never sends on the closed channel,
\* the job is never queued or taken by a worker, and no result is produced
\* for it.
C3_SubmitAfterCloseIsNoOp ==
    /\ \A j \in rejected :
          /\ ~InJobs(j)
          /\ \A w \in Workers : wjob[w] # j
          /\ Published(j) = 0
    /\ panic # "send on closed channel"
    /\ (Alive /\ cpc = "submit" /\ wp.closed) => ENABLED CallerSubmitReturn

\* a Submit after Close() has returned while the job queue was full and jobs
\* submitted earlier were still being served
C3_Witness ==
    /\ rejected # {}
    /\ submitted # {}
    /\ Len(wp.Jobs) = wp.bufferSize
    /\ cpc = "ready"

(***************************************************************************)
(* Properties of the spatial grid (SpecGrid).                              *)
(***************************************************************************)
Perms(n) == {p \in [1..n -> 1..n] : \A i, j \in 1..n : p[i] = p[j] => i = j}

\* the grid after the same records were inserted in the order p
GridInOrder(p) ==
    FoldGrid(NewSpatialGrid(spatialGrid.sensitivity),
             [i \in 1..Len(inserted) |-> inserted[p[i]]])

GpsIndices == {i \in 1..Len(inserted) : inserted[i].HasGPS}

SameCluster(sg, i, j) ==
    \E c \in GetClusters(sg) :
        /\ inserted[i].OriginalPath \in Range(c.Images)
        /\ inserted[j].OriginalPath \in Range(c.Images)

SameGridKey(i, j) ==
    /\ FloorDiv(inserted[i].Latitude, spatialGrid.sensitivity)
         = FloorDiv(inserted[j].Latitude, spatialGrid.sensitivity)
    /\ FloorDiv(inserted[i].Longitude, spatialGrid.sensitivity)
         = FloorDiv(inserted[j].Longitude, spatialGrid.sensitivity)

\* C8: two records with valid GPS are in the same cluster exactly when
\* floor(lat/sensitivity) and floor(lng/sensitivity) agree, whatever the order
\* in which the records were inserted.
C8_SameClusterIffSameGridKey ==
    \A i, j \in GpsIndices :
        SameCluster(spatialGrid, i, j) <=> SameGridKey(i, j)

\* two records that share a cell lie further apart than one of them and a
\* record of the neighbouring cell, just across the boundary
C8_Witness ==
    \E i, j, k \in GpsIndices :
        /\ i # j /\ j # k /\ i # k
        /\ inserted[i].Longitude = inserted[j].Longitude
        /\ inserted[j].Longitude = inserted[k].Longitude
        /\ SameCluster(spatialGrid, i, j)
        /\ ~SameCluster(spatialGrid, j, k)
        /\ Abs(inserted[j].Latitude - inserted[k].Latitude)
             < Abs(inserted[i].Latitude - inserted[j].Latitude)

RECURSIVE SumOver(_, _, _)
\* sum of the latitudes ("lat") or longitudes of the records with these paths
SumOver(paths, axis, infos) ==
    IF paths = <<>> THEN 0
    ELSE LET info == CHOOSE x \in Range(infos) : x.OriginalPath = Head(paths)
         IN  (IF axis = "lat" THEN info.Latitude ELSE info.Longitude)
             + SumOver(Tail(paths), axis, infos)

GpsKeys(sg) == (DOMAIN sg.cells) \ {NoLocationKey}

\* C9 as stated: the centroid of every cell is exactly the arithmetic mean of
\* the inserted values on each axis, and every permutation of the insertion
\* order gives exactly the same centroid.
C9_CentroidIsExactMean ==
    \A key \in GpsKeys(spatialGrid) :
        LET cell == spatialGrid.cells[key] IN
        /\ cell.Count * cell.CenterLat = SumOver(cell.Images, "lat", inserted)
        /\ cell.Count * cell.CenterLng = SumOver(cell.Images, "lng", inserted)
        /\ \A p \in Perms(Len(inserted)) :
             /\ GridInOrder(p).cells[key].CenterLat = cell.CenterLat
             /\ GridInOrder(p).cells[key].CenterLng = cell.CenterLng

\* C9 as amended: the centroid of every cell equals the arithmetic mean of the
\* k inserted values within the rounding tolerance of the k floating-point
\* updates ((k+1)/4 units in the last place), and the centroids of two
\* insertion orders differ by no more than twice that tolerance.
C9_CentroidWithinTolerance ==
    \A key \in GpsKeys(spatialGrid) :
        LET cell == spatialGrid.cells[key]
            k == cell.Count
        IN
        /\ 4 * Abs(k * cell.CenterLat - SumOver(cell.Images, "lat", inserted))
             <= k * (k + 1)
        /\ 4 * Abs(k * cell.CenterLng - SumOver(cell.Images, "lng", inserted))
             <= k * (k + 1)
        /\ \A p \in Perms(Len(inserted)) :
             /\ 2 * Abs(GridInOrder(p).cells[key].CenterLat - cell.CenterLat) <= k + 1
             /\ 2 * Abs(GridInOrder(p).cells[key].CenterLng - cell.CenterLng) <= k + 1

\* a cell holds three records whose mean latitude the stored centroid misses,
\* and another insertion order of the same records gives another centroid
C9_Witness ==
    \E key \in GpsKeys(spatialGrid) :
        LET cell == spatialGrid.cells[key] IN
        /\ cell.Count = 3
        /\ cell.Count * cell.CenterLat # SumOver(cell.Images, "lat", inserted)
        /\ \E p \in Perms(Len(inserted)) :
             GridInOrder(p).cells[key].CenterLat # cell.CenterLat

(***************************************************************************)
(* Properties of the batch scheduler and of the organizer (Spec,           *)
(* SpecRerun).                                                             *)
(***************************************************************************)
Ceil(n, b) == (n + b - 1) \div b

\* the k-th run of batchSize consecutive files of the discovered list
Chunk(k) ==
    SubSeq(mediaFiles, (k - 1) * batchSize + 1,
           IF k * batchSize > totalFiles THEN totalFiles ELSE k * batchSize)

BatchLoopOver == rpc \in {"organize", "copy", "cleanup", "wait", "release", "done"}

\* C4: the discovered list of N files is processed as ceil(N/B) batches, the
\* k-th batch being the k-th run of B consecutive files in list order (the
\* last one holds the remainder), so the batches are pairwise disjoint; with
\* B = 2 and N = 5 the sizes are 2, 2, 1.
C4_BatchesAreConsecutiveChunks ==
    /\ Len(batches) <= Ceil(totalFiles, batchSize)
    /\ \A k \in 1..Len(batches) : batches[k] = Chunk(k)
    /\ \A j, k \in 1..Len(batches) :
          j # k => Range(batches[j]) \cap Range(batches[k]) = {}
    /\ BatchLoopOver => Len(batches) = Ceil(totalFiles, batchSize)
    /\ (BatchLoopOver /\ batchSize = 2 /\ totalFiles = 5)
          => [k \in 1..Len(batches) |-> Len(batches[k])] = <<2, 2, 1>>

\* five files were processed with batch size 2, as batches of 2, 2 and 1
C4_Witness ==
    /\ rpc = "organize"
    /\ batchSize = 2
    /\ Len(mediaFiles) = 5
    /\ Len(batches) = 3
    /\ Len(batches[3]) = 1

\* the job is queued, held by a worker, or its result waits in Results
InPipeline(f) ==
    \/ \E i \in 1..Len(wp.Jobs) : wp.Jobs[i] = f
    \/ \E w \in Workers : wjob[w] = f
    \/ \E i \in 1..Len(wp.Results) : wp.Results[i].path = f

\* the file's record was added to the grid
Folded(f) ==
    \E key \in DOMAIN spatialGrid.cells : f \in Range(spatialGrid.cells[key].Images)

InBatch == rpc \in {"submit", "collect"}

\* C5: batches never overlap in the pipeline.  Every job and every result in
\* the pool belongs to the batch being processed, as does every result
\* collected for it; between batches the pool is empty; and while a batch is
\* processed every file of the earlier batches has had its result collected
\* and, if extracted, its record added to the grid.
C5_BatchesDoNotOverlap ==
    /\ \A f \in AllFiles :
          InPipeline(f) => InBatch /\ f \in Range(BatchFiles)
    /\ InBatch =>
          /\ \A i \in 1..Len(imageInfos) :
                imageInfos[i].OriginalPath \in Range(BatchFiles)
          /\ Len(imageInfos) + errorCount = got
          /\ got <= Len(BatchFiles)
          /\ \A i \in 1..batchStart :
                Folded(mediaFiles[i]) \/ mediaFiles[i] \in warned
          /\ \A f \in Range(BatchFiles) : ~Folded(f)
    /\ rpc = "loop" =>
          \A i \in 1..Len(mediaFiles) :
              i <= batchStart => Folded(mediaFiles[i]) \/ mediaFiles[i] \in warned

\* a later batch is being submitted with a job already queued, after a batch
\* in which one extraction failed and one succeeded
C5_Witness ==
    /\ rpc = "submit"
    /\ batchStart > 0
    /\ wp.Jobs # <<>>
    /\ \E i, j \in 1..batchStart :
          /\ i # j
          /\ Folded(mediaFiles[i])
          /\ mediaFiles[j] \in warned

RunOver == rpc \in {"cleanup", "wait", "release", "done"}

\* C6: when a run over N discovered files has completed, the copied, skipped
\* and errored tallies sum to N.
C6_CountsSumToTotal ==
    (RunOver /\ walkFate = "ok")
        => tally.copied + tally.skipped + tally.errored = totalFiles

\* C7: a second run with the same source tree, configuration and output
\* folder copies nothing.
C7_RerunCopiesNothing ==
    run >= 2 =>
        /\ tally.copied = 0
        /\ rpc = "copy" => copiedCount = 0

\* C10: within a cluster the copies are made in ascending capture time, files
\* with equal capture time in the order of their original paths.
C10_CopiesInTimeThenPathOrder ==
    rpc = "copy" =>
        \A i, j \in 1..(ck - 1) :
            i < j =>
                \/ clusterImageInfos[i].Date < clusterImageInfos[j].Date
                \/ /\ clusterImageInfos[i].Date = clusterImageInfos[j].Date
                   /\ clusterImageInfos[i].OriginalPath < clusterImageInfos[j].OriginalPath

(***************************************************************************)
(* The result of a run, as a function of the source tree alone: the run    *)
(* in which every result arrives in the order of submission.               *)
(***************************************************************************)
\* the records of files 1..n, every file readable
InOrderInfos(n) == [i \in 1..n |-> ExtractWithFate(i, "readable")]

RECURSIVE CopyAll(_, _)
\* the copy loop over the sorted records, every directory and copy succeeding
CopyAll(files, infos) ==
    IF infos = <<>> THEN files
    ELSE CopyAll(copyFile(files, Head(infos).OriginalPath,
                          createFolderStructure(Head(infos), TRUE), "ok").fs,
                 Tail(infos))

RECURSIVE OrganizeAll(_, _)
OrganizeAll(files, clusters) ==
    IF clusters = <<>> THEN files
    ELSE LET cluster == Head(clusters)
             scan == ScanImages(cluster.Images, ExistingFileMap(files, cluster.Name),
                                cluster.Name, [f \in AllFiles |-> "readable"])
         IN  OrganizeAll(CopyAll(files, SortSlice(<<>>, scan.infos)), Tail(clusters))

InOrderResult ==
    LET sg == FoldGrid(NewSpatialGrid(spatialGrid.sensitivity), InOrderInfos(srcCount))
    IN  OrganizeAll({}, CHOOSE seq \in Orderings(GetClusters(sg)) : TRUE)

\* what stands where in the output folder
Placement(files) == {[dir |-> e.dir, name |-> e.name, src |-> e.src] : e \in files}

\* C11: the destination paths created by a run, and the source file each one
\* holds, do not depend on the order in which the workers' results arrive: a
\* run in which nothing failed ends with the placement of the run whose
\* results arrive in submission order.
C11_ResultIndependentOfArrivalOrder ==
    (RunOver /\ walkFate = "ok" /\ Faults = 0)
        => Placement(fs) = Placement(InOrderResult)

\* C12: copyFile never writes to a path that exists.  Every step keeps every
\* file of the output folder as it was, and a file it adds stands at a path
\* that was free: the source's base name, or that name with the smallest
\* counter k >= 1 such that the name with counter k is free, all smaller
\* counters and the bare name being taken.
C12_CopyNeverOverwrites ==
    [][ /\ fs \subseteq fs'
        /\ \A e \in fs' \ fs :
              /\ ~\E o \in fs : o.dir = e.dir /\ o.name = e.name
              /\ e.name[1] = Base(e.src)
              /\ \A c \in 0..(e.name[2] - 1) : <<e.name[1], c>> \in NamesIn(fs, e.dir)
      ]_vars

\* a copy found its name taken by another source file and was written beside it
C12_Witness ==
    \E e, o \in fs :
        /\ e.dir = o.dir
        /\ e.src # o.src
        /\ o.name = <<Base(e.src), 0>>
        /\ e.name = <<Base(e.src), 1>>

\* the members of the cluster whose base name a file under
\* outputFolder/<cluster name> bears
AlreadyThere(files, cluster) ==
    {f \in Range(cluster.Images) :
        \E e \in files : e.dir.label = cluster.Name /\ e.name = <<Base(f), 0>>}

MetadataDateReadable(in) ==
    /\ in.embeddedDate # ZeroTime
    /\ IF in.class = "DirectMetadata" THEN in.decodeOK ELSE in.toolDateOK

\* C14 (as stated): for each of the three classes the capture time is the
\* embedded metadata date when present and parseable (decoded in process for
\* DirectMetadata, queried from the external tool for the other two),
\* otherwise the filename timestamp when found, otherwise the modification
\* time.
C14_MetadataDateFirstForEveryClass ==
    exOut.kind = "info" =>
        exOut.Date = IF MetadataDateReadable(exIn) THEN exIn.embeddedDate
                     ELSE IF exIn.filenameFound THEN exIn.filenameDate
                     ELSE exIn.modTime

\* C14 (amended): the embedded date is read for DirectMetadata (in process)
\* and ExternalToolRequired (external tool) files only; for a LimitedMetadata
\* file, and whenever no embedded date is read, the capture time is the
\* filename timestamp when found, otherwise the modification time when stat
\* succeeds, otherwise the time of the extraction.
C14_MetadataDateExceptLimitedMetadata ==
    exOut.kind = "info" =>
        exOut.Date = IF exIn.class # "LimitedMetadata" /\ MetadataDateReadable(exIn)
                     THEN exIn.embeddedDate
                     ELSE IF exIn.filenameFound THEN exIn.filenameDate
                     ELSE IF exIn.statOK THEN exIn.modTime
                     ELSE NowDate

\* a .heic with a readable embedded date and a dated name gets the name's date
C14_Witness ==
    /\ exOut.kind = "info"
    /\ exIn.class = "LimitedMetadata"
    /\ MetadataDateReadable(exIn)
    /\ exIn.filenameFound
    /\ exOut.Date = exIn.filenameDate
    /\ exOut.Date # exIn.embeddedDate

\* C15: every record a successful extraction returns has a non-zero capture
\* time, whatever stat, the filename parser, the decoder and the external
\* tool answer.
C15_CaptureTimeNeverZero ==
    exOut.kind = "info" => exOut.Date # ZeroTime

\* C16: extractImageInfo returns an error only when the file cannot be opened
\* or stat'd; with the external tool missing or failing, or no decodable
\* metadata, a file that opens and stats still gets a record.
C16_ErrorOnlyWhenUnreadable ==
    /\ exOut.kind = "error" => (~exIn.openOK \/ ~exIn.statOK)
    /\ (exOut # NotCalled /\ exIn.openOK /\ exIn.statOK) => exOut.kind = "info"

\* a record comes back although the decoder and both tool queries fail
C16_Witness ==
    /\ exOut.kind = "info"
    /\ ~exIn.decodeOK /\ ~exIn.toolDateOK /\ ~exIn.toolGpsOK
    /\ exIn.class = "DirectMetadata"

(***************************************************************************)
(* Failures inside the pool and the run                                    *)
(***************************************************************************)
\* C17: a worker never terminates abnormally: whatever open, stat, the
\* decoder and the tool answer for its job, no panic stops it in the middle
\* of the job; the failure travels in the job's result.
C17_WorkerNeverTerminatesAbnormally ==
    \A w \in Workers : wpc[w] = "extract" => panic # "nil pointer dereference"

\* the batches before the current one: their files, in list order
Earlier == IF batchStart > Len(mediaFiles) THEN Len(mediaFiles) ELSE batchStart

\* while the grid is still in use
GridInUse == rpc \in {"loop", "submit", "collect", "organize", "copy"}

\* the extraction of f failed: the open failed, or the stat after it
ExtractionFailed(f) == fate[f] \in {"unopenable", "unstatable"}

\* an extraction that returned an error: the files of the batches already
\* processed whose extraction succeeded are in the grid, those whose
\* extraction returned an error are named in one warning each, and when the
\* batch loop is left every batch has been processed
ErrorResultsAreIsolated ==
    /\ GridInUse =>
          \A i \in 1..Earlier :
              /\ fate[mediaFiles[i]] = "unopenable" <=> mediaFiles[i] \in warned
              /\ fate[mediaFiles[i]] # "unopenable" <=> Folded(mediaFiles[i])
    /\ tally.errored + (IF InBatch THEN errorCount ELSE 0) = Cardinality(warned)
    /\ rpc \in {"organize", "copy"} =>
          /\ Earlier = Len(mediaFiles)
          /\ Len(batches) = Ceil(totalFiles, batchSize)

\* C18: a failed extraction of one file is isolated.  It does not halt the
\* run; every other file of its batch whose extraction succeeds is folded
\* into the grid, all later batches are processed, and one log line names the
\* failing file.
C18_FailedExtractionIsIsolated ==
    /\ (\E f \in AllFiles : ExtractionFailed(f)) => Alive
    /\ ErrorResultsAreIsolated

\* copyFile was called for f
Attempted(f) == copyFate[f] # "unknown"

\* the pre-scan of some cluster can have found f's base name
BaseNameTaken(f) == \E e \in fs : e.src # f /\ e.name = <<Base(f), 0>>

\* the copy loop goes on after a failed copy: the records before the current
\* one have all had their attempt, and when the run is over so has every
\* discovered file that was extracted and not skipped by a pre-scan
CopyLoopGoesOn ==
    /\ rpc = "copy" =>
          \A k \in 1..Len(clusterImageInfos) :
              k < ck => Attempted(clusterImageInfos[k].OriginalPath)
    /\ (RunOver /\ walkFate = "ok") =>
          \A f \in Range(mediaFiles) :
              Attempted(f) \/ f \in warned \/ BaseNameTaken(f)

\* the copies whose error copyFile returns are logged and not counted
ReturnedErrorsAreLogged ==
    /\ \A f \in AllFiles : copyFate[f] \in {"create", "write"} <=> f \in copyLog
    /\ rpc = "copy" =>
          copiedCount = Cardinality({k \in 1..Len(clusterImageInfos) :
                           /\ k < ck
                           /\ clusterImageInfos[k].OriginalPath \notin copyLog})

\* C19: a failed copy of one file is logged and skipped; every remaining
\* member of its cluster and every member of every later cluster still gets
\* its copy attempt, and the run gets to its end.
C19_FailedCopyIsLoggedAndSkipped ==
    /\ \A f \in AllFiles : (Attempted(f) /\ copyFate[f] # "ok") => f \in copyLog
    /\ ReturnedErrorsAreLogged
    /\ CopyLoopGoesOn

\* a run is over in which the copy of one file failed with an error and a
\* file sorted after it in the same cluster was copied
CopyFailedThenCopied ==
    /\ rpc = "done"
    /\ \E f \in copyLog, e \in fs :
          /\ e.src # f /\ e.complete
          /\ e.dir.label \in {formatLocation(FileLat(f), FileLng(f)), NoLocationName}
          /\ FileDate(f) < FileDate(e.src)

\* C20: when the walk of the source tree fails the run aborts before
\* processing: the error is reported once, no worker pool is created or
\* started, no file is extracted, clustered or copied, and the run is in, or
\* past, its end-of-run cleanup.
C20_WalkFailureAbortsRun ==
    walkFate = "fails" =>
        /\ findErrors = 1
        /\ wp = NilPool
        /\ \A w \in Workers : wpc[w] = "off"
        /\ \A f \in AllFiles : fate[f] = "unknown" /\ copyFate[f] = "unknown"
        /\ DOMAIN spatialGrid.cells = {}
        /\ batches = <<>>
        /\ finalClusters = <<>>
        /\ fs = {}
        /\ tally = ZeroTally
        /\ rpc \in {"cleanup", "done"}
        /\ Alive

\* the run whose walk failed has ended
C20_Witness == walkFate = "fails" /\ rpc = "done" /\ run = 1

(***************************************************************************)
(* The filename parser (SpecParse)                                         *)
(***************************************************************************)
\* the precedence order as stated: the ISO form before the generic one
StatedOrder ==
    <<Patterns[1], Patterns[2], Patterns[3], Patterns[4], Patterns[6], Patterns[5],
      Patterns[7]>>

Matching(basename, order) ==
    {k \in 1..Len(order) : MatchString(basename, order[k].regex)}

\* the first pattern of the order that matches decides alone
FirstMatchWins(basename, order) ==
    LET ms == Matching(basename, order) IN
    IF ms = {} THEN NotFound
    ELSE ParseMatch(basename, order[CHOOSE k \in ms : \A j \in ms : k <= j])

\* C21: the result is decided by the first pattern that matches in the order
\* iPhone, Android, Screenshot, WhatsApp, ISO, generic, Unix; no later
\* pattern is consulted once an earlier one matches.
C21_FirstMatchingPatternDecides ==
    parsed # NotCalled => parsed = FirstMatchWins(TrimExt(filename), StatedOrder)

\* C22: found is false when no pattern matches and when the substring
\* matched by the winning pattern is not a valid date and time; found is
\* true only with the date and time of that substring.
C22_InvalidMatchIsNotFound ==
    parsed # NotCalled => parsed = FirstMatchWins(TrimExt(filename), Patterns)

\* C23: a base name of exactly ten digits d parses to the instant of Unix
\* second d.
C23_TenDigitsAreUnixSeconds ==
    \A n \in UnixSeconds :
        (parsed # NotCalled /\ TrimExt(filename) = UnixName(n)) => parsed = Found(Unix(n))

\* C24: for every valid date D and time T, IMG_<D>_<T>.<ext> and
\* Screenshot_<D>-<T>.<ext> parse to found with exactly D and T.
C24_IPhoneAndScreenshotNamesRoundTrip ==
    \A d \in NameDates, t \in NameTimes, e \in Exts \ {<<>>} :
        (/\ parsed # NotCalled
         /\ ValidDate(d) /\ ValidTime(t)
         /\ filename \in {IPhoneName(d, t) \o e, ScreenshotName(d, t) \o e})
            => parsed = Found(Civil(d.year, d.month, d.day, t.hour, t.min, t.sec))

\* Screenshot_20240229-143022.jpg was parsed to 2024-02-29 14:30:22
C24_Witness ==
    /\ filename = ScreenshotName([year |-> 2024, month |-> 2, day |-> 29],
                                 [hour |-> 14, min |-> 30, sec |-> 22])
                      \o <<".", "j", "p", "g">>
    /\ parsed = Found(Civil(2024, 2, 29, 14, 30, 22))

(***************************************************************************)
(* Coordinates of an extracted record (SpecExtract)                        *)
(***************************************************************************)
\* the cell AddImage puts the record in, on an empty grid
RoutedTo(info) == DOMAIN AddImage(NewSpatialGrid(DefaultSensitivity), info).cells

\* the records whose coordinates come from the external tool
ToolLocationNeedsNonZero ==
    (exOut.kind = "info" /\ exIn.class # "DirectMetadata" /\ exOut.HasGPS)
        => (exOut.Latitude # 0 /\ exOut.Longitude # 0)

\* C25: HasGPS is true only if the latitude and the longitude obtained are
\* both non-zero, from the decoder as from the external tool; otherwise it
\* stays false and AddImage puts the record in the no-location cell.
C25_LocationOnlyWithNonZeroCoordinates ==
    exOut.kind = "info" =>
        /\ exOut.HasGPS => (exOut.Latitude # 0 /\ exOut.Longitude # 0)
        /\ ~exOut.HasGPS => RoutedTo(exOut) = {NoLocationKey}

(***************************************************************************)
(* A tool call that never returns (SpecHang)                               *)
(***************************************************************************)
Stalled == \E w \in Workers : wpc[w] = "hung"

\* f was submitted and is queued, or held by a worker that is not stalled
StillPending(f) ==
    \/ f \in Range(wp.Jobs)
    \/ \E w \in Workers : wjob[w] = f /\ wpc[w] \in {"extract", "send"}

\* the result of f is, or was, on the result queue
ResultPublished(f) ==
    \/ \E i \in 1..Len(wp.Results) : wp.Results[i].path = f
    \/ \E i \in 1..Len(imageInfos) : imageInfos[i].OriginalPath = f
    \/ f \in warned

\* C26: when the external-tool call of one worker never returns, every other
\* job already submitted is still taken by a remaining worker and its result
\* is eventually published on the result queue.
C26_OtherJobsAreStillPublished ==
    \A f \in AllFiles : (Stalled /\ StillPending(f)) ~> ResultPublished(f)

\* the same for a pool of at least two workers, short of a panic
OtherWorkersKeepDraining ==
    \A f \in AllFiles :
        (Stalled /\ StillPending(f) /\ wp.WorkerCount >= 2) ~> (ResultPublished(f) \/ ~Alive)


(***************************************************************************)
(* Properties of findMediaFiles (SpecWalk).                                *)
(***************************************************************************)
\* the extensions the program supports: the video formats it extracts
\* metadata for and the image formats it lists
SupportedExts == videoFormats \cup ListedImageFormats

\* the callback has been called for entry i and the walk has not failed on it
Walked(i) == i <= walkPos /\ ~walkTree[i].err

Discovered(i) == i \in Range(walkFound)

\* C27: every file of the walked tree whose extension, in any letter case,
\* is a supported one (.mov .mp4 .m4v .avi .mkv .wmv .flv .webm .3gp .mts
\* .m2ts and every listed image and RAW extension) is discovered.
C27_EverySupportedExtensionIsDiscovered ==
    \A i \in 1..Len(walkTree) :
        (/\ Walked(i)
         /\ ~walkTree[i].isDir
         /\ ToLower(Ext(walkTree[i].name)) \in SupportedExts) => Discovered(i)

\* what does hold: the listed image formats and the video formats other
\* than .flv, .3gp, .mts and .m2ts are discovered
ListedFormatsInAllowlistAreDiscovered ==
    \A i \in 1..Len(walkTree) :
        (/\ Walked(i)
         /\ ~walkTree[i].isDir
         /\ ToLower(Ext(walkTree[i].name)) \in
                SupportedExts \ {<<".", "f", "l", "v">>, <<".", "3", "g", "p">>,
                                 <<".", "m", "t", "s">>, <<".", "m", "2", "t", "s">>})
            => Discovered(i)


(***************************************************************************)
(* Properties of the LogBuffer (SpecLog).                                  *)
(***************************************************************************)
\* the last n elements of seq
LastN(seq, n) == SubSeq(seq, Len(seq) - n + 1, Len(seq))

MostRecent ==
    LastN(added, IF Len(added) < lb.maxLines THEN Len(added) ELSE lb.maxLines)

\* C28: after n calls of Add on a buffer of capacity C >= 1, GetLines
\* returns the min(n, C) most recently added lines, oldest first.
C28_GetLinesReturnsMostRecentLines == GetLines(lb) = MostRecent

\* lines were evicted, and GetLines was called after that
C28_Witness ==
    /\ Len(added) > lb.maxLines
    /\ lb.maxLines >= 2
    /\ lb.current # 0
    /\ shown = MostRecent
    /\ shown # SubSeq(added, 1, lb.maxLines)


(***************************************************************************)
(* Termination of a run (SpecScheduled).                                   *)
(***************************************************************************)
RunStarted == rpc \notin {"idle", "done"}

\* organizeImages has returned, its deferred cleanup included, and no worker
\* goroutine is left
RunTerminated ==
    /\ rpc = "done"
    /\ wp = NilPool
    /\ \A w \in Workers : wpc[w] \in {"off", "done"}

\* every batch so far collected one result for each of its files
BatchesCollected == processedFiles = batchStart \/ rpc \in {"submit", "collect"}

\* C29: a started run, in which every extraction and every copy returns,
\* comes to its end: every batch collects as many results as it has files,
\* every cluster is visited, Close and Wait return and every worker
\* goroutine exits; no state before the end is without a next step.
C29_RunTerminates ==
    /\ RunStarted ~> RunTerminated
    /\ [](RunStarted => ENABLED Next)

\* what does hold: the run comes to its end unless a goroutine panics
RunTerminatesUnlessPanic ==
    /\ RunStarted ~> (RunTerminated \/ ~Alive)
    /\ [](RunStarted /\ Alive => ENABLED Next)
    /\ [](RunTerminated /\ findErrors = 0 =>
            processedFiles = totalFiles /\ ci > Len(finalClusters))


(***************************************************************************)
(* Files in flight during a run (Spec).                                    *)
(***************************************************************************)
\* workers that hold a job: in extractImageInfo, or sending its result
Extracting == {w \in Workers : wpc[w] \in {"extract", "send"}}

\* submitted files whose record is neither folded into the grid nor dropped
InFlight ==
    Len(wp.Jobs) + Cardinality(Extracting) + Len(wp.Results) + Len(imageInfos)

\* C30: at every point of a run the queued jobs, the jobs in extraction, the
\* queued results and the records of the current batch slice are together
\* at most batchSize.
C30_InFlightAtMostBatchSize == InFlight <= batchSize

\* a full batch in flight, spread over the job queue, a worker, the result
\* queue or the batch slice
C30_Witness ==
    /\ batchSize >= 2
    /\ InFlight = batchSize
    /\ Extracting # {}
    /\ Len(wp.Results) + Len(imageInfos) >= 1
    /\ batchStart > 0

(***************************************************************************)
(* What copyFile returns (Spec).                                           *)
(***************************************************************************)
\* copyFile returned nil for f: it was called and the organizer logged nothing
ReturnedNil(f) == Attempted(f) /\ f \notin copyLog

\* the output tree holds the whole content of f
CopiedWhole(f) == \E e \in fs : e.src = f /\ e.complete

\* C31: copyFile returns nil only when the destination holds the complete
\* content of the source; a failure while reading or writing makes it return
\* an error, and the organizer logs the file and does not count it.
C31_NilOnlyForCompleteCopy ==
    \A f \in AllFiles : ReturnedNil(f) => CopiedWhole(f)

\* what does hold: a failed os.Create or Write is returned
CreateAndWriteErrorsAreReturned ==
    \A f \in AllFiles : ReturnedNil(f) => copyFate[f] \in {"ok", "read"}

(***************************************************************************)
(* Frame of AddImage (SpecGrid).                                           *)
(***************************************************************************)
\* the key of the cell AddImage selects for a record
SelectedKey(sg, info) ==
    IF info.HasGPS THEN GetGridKey(sg, info.Latitude, info.Longitude)
    ELSE NoLocationKey

IsPrefix(s, t) == Len(s) <= Len(t) /\ SubSeq(t, 1, Len(s)) = s

\* this step is one call of AddImage
AddImageStep == Len(inserted') = Len(inserted) + 1

\* C32: AddImage of a record changes only the cell its grid key selects (or
\* the no-location cell): every other cell keeps its member list, count and
\* centroid, and a path that is in a cell stays in that cell.
C32_AddImageChangesOnlySelectedCell ==
    [][AddImageStep =>
        LET info == inserted'[Len(inserted')]
            key == SelectedKey(spatialGrid, info)
        IN  \A k \in DOMAIN spatialGrid.cells :
              /\ k \in DOMAIN spatialGrid'.cells
              /\ k # key => spatialGrid'.cells[k] = spatialGrid.cells[k]
              /\ IsPrefix(spatialGrid.cells[k].Images, spatialGrid'.cells[k].Images)
              /\ \A q \in DOMAIN spatialGrid'.cells :
                   q # k => Range(spatialGrid.cells[k].Images)
                              \cap Range(spatialGrid'.cells[q].Images) = {}]_vars

\* two cells, one of which took a second record that moved its centroid
\* after the other cell was made
C32_Witness ==
    /\ Len(inserted) = 3
    /\ Cardinality(DOMAIN spatialGrid.cells) = 2
    /\ SelectedKey(spatialGrid, inserted[1]) = SelectedKey(spatialGrid, inserted[3])
    /\ SelectedKey(spatialGrid, inserted[1]) # SelectedKey(spatialGrid, inserted[2])
    /\ inserted[1].HasGPS
    /\ spatialGrid.cells[SelectedKey(spatialGrid, inserted[1])].CenterLat
         # inserted[1].Latitude

(***************************************************************************)
(* Who extracts a file's metadata, and how often (Spec).                   *)
(***************************************************************************)
\* the cells that hold path f, counted with the times it is in each
TimesInGrid(f) ==
    LET F[keys \in SUBSET DOMAIN spatialGrid.cells] ==
            IF keys = {} THEN 0
            ELSE LET k == CHOOSE x \in keys : TRUE
                 IN  Cardinality({i \in 1..Len(spatialGrid.cells[k].Images) :
                                     spatialGrid.cells[k].Images[i] = f})
                     + F[keys \ {k}]
    IN  F[DOMAIN spatialGrid.cells]

\* the workers extract each file at most once and its record is added to the
\* grid at most once, and once the batch loop is over exactly once unless the
\* extraction failed
WorkersExtractOnce ==
    \A f \in AllFiles :
        /\ calls[f].worker <= 1
        /\ TimesInGrid(f) <= 1
        /\ (TimesInGrid(f) = 1 \/ f \in warned) => calls[f].worker = 1
        /\ (rpc = "organize" /\ ci = 1 /\ f \in Range(mediaFiles)) =>
               /\ calls[f].worker = 1
               /\ TimesInGrid(f) = 1 \/ f \in warned

\* C33: in a run the metadata of each discovered file is extracted exactly
\* once, by a pool worker, and the record is handed to the grid exactly once;
\* the capture time that sorts and places the file is the one that worker
\* produced, so the organizer extracts nothing itself.
C33_ExtractedOnceByAWorker ==
    /\ WorkersExtractOnce
    /\ \A f \in AllFiles : calls[f].organizer = 0

(***************************************************************************)
(* Blocking on the pool's queues during a run (Spec).                      *)
(***************************************************************************)
\* the Submit call the run is about to make finds room in the job queue
SubmitFindsRoom == rpc = "submit" => Len(wp.Jobs) < wp.bufferSize

\* a worker that has a result to publish finds room in the result queue
SendFindsRoom ==
    \A w \in Workers : wpc[w] = "send" => Len(wp.Results) < wp.bufferSize

\* C34: during a run with batch size B no Submit blocks on a full job queue
\* and no worker blocks publishing a result: both queues hold 2 * B and at
\* most B jobs are outstanding.
C34_QueuesNeverBlock ==
    /\ SubmitFindsRoom
    /\ SendFindsRoom
    /\ wp # NilPool => wp.bufferSize = 2 * batchSize
    /\ Len(wp.Jobs) + Len(wp.Results) <= batchSize

\* a worker is about to publish a result behind one that is still queued
C34_Witness ==
    /\ batchSize = 2
    /\ Len(wp.Results) = 1
    /\ \E w \in Workers : wpc[w] = "send"

(***************************************************************************)
(* Counts of the grid (SpecGrid).                                          *)
(***************************************************************************)
\* how often path f is in the member list of the cell
TimesInCell(sg, key, f) ==
    Cardinality({i \in 1..Len(sg.cells[key].Images) : sg.cells[key].Images[i] = f})

RECURSIVE SumCounts(_, _)
\* the sum of cell.Count over these cells
SumCounts(sg, keys) ==
    IF keys = {} THEN 0
    ELSE LET k == CHOOSE x \in keys : TRUE
         IN  sg.cells[k].Count + SumCounts(sg, keys \ {k})

\* C35: after any sequence of AddImage calls every cell's Count is the length
\* of its member list, every added path is in exactly one cell exactly once,
\* and the counts of all cells sum to the number of calls.
C35_CountsMatchMembers ==
    /\ \A key \in DOMAIN spatialGrid.cells :
         spatialGrid.cells[key].Count = Len(spatialGrid.cells[key].Images)
    /\ \A i \in 1..Len(inserted) :
         \E key \in DOMAIN spatialGrid.cells :
           /\ TimesInCell(spatialGrid, key, inserted[i].OriginalPath) = 1
           /\ \A q \in DOMAIN spatialGrid.cells :
                q # key => TimesInCell(spatialGrid, q, inserted[i].OriginalPath) = 0
    /\ SumCounts(spatialGrid, DOMAIN spatialGrid.cells) = Len(inserted)

\* three calls filled a located cell and the no-location cell, one of them
\* twice
C35_Witness ==
    /\ Len(inserted) = 3
    /\ NoLocationKey \in DOMAIN spatialGrid.cells
    /\ Cardinality(DOMAIN spatialGrid.cells) = 2
    /\ spatialGrid.cells[NoLocationKey].Count = 2

(***************************************************************************)
(* Labels of the clusters (SpecGrid).                                      *)
(***************************************************************************)
\* C36: GetClusters gives distinct cells distinct labels, so the files of two
\* cells never share a destination subtree outputRoot/label.
C36_DistinctCellsHaveDistinctLabels ==
    \A k, q \in DOMAIN spatialGrid.cells :
        k # q => ClusterOf(spatialGrid, k).Name # ClusterOf(spatialGrid, q).Name

\* what does hold: the no-location cell shares its label with no other cell
NoLocationLabelIsItsOwn ==
    \A k \in GpsKeys(spatialGrid) :
        ClusterOf(spatialGrid, k).Name # NoLocationName

(***************************************************************************)
(* Copies of a run into an empty output folder (Spec, SpecStraddle).       *)
(***************************************************************************)
\* the copies of f in the output tree
CopiesOf(f) == {e \in fs : e.src = f}

\* nothing failed in this run
NothingFailed == Faults = 0 /\ Alive

\* C37: after a run into an empty output folder in which nothing fails every
\* discovered file has exactly one copy in the output tree; no file is
\* skipped as a duplicate, also when two files of different source
\* directories share a base name.
C37_EveryFileCopiedOnce ==
    (rpc = "done" /\ run = 1 /\ NothingFailed) =>
        /\ \A f \in Range(mediaFiles) : Cardinality(CopiesOf(f)) = 1
        /\ tally.skipped = 0

(***************************************************************************)
(* Runs that overlap (SpecOverlap).                                        *)
(***************************************************************************)
CountersInOrder == counters.processedFiles <= counters.totalFiles

\* every job and result in a pool was submitted by the run that made the pool
OwnPool ==
    \A k \in 1..Len(pools) :
        \A rec \in Range(pools[k].Jobs) \cup Range(pools[k].Results) :
            olocal[rec[1]].made = k

\* every result a run has collected is the result of one of its own files
OwnResults == \A r \in 1..started : \A rec \in olocal[r].infos : rec[1] = r

\* every record in the grid that a call of startOrganizing made comes from
\* the run that call started
OwnGrid == \A g \in 1..Len(grids) : \A rec \in grids[g] : rec[1] = g

\* C38: a run started while an earlier run is in progress does not disturb
\* it: each run submits to and collects from its own pool and folds into its
\* own grid, and the processed counter never exceeds the total counter.
C38_OverlappingRunsAreIndependent ==
    /\ OwnPool
    /\ OwnResults
    /\ OwnGrid
    /\ CountersInOrder
    /\ ~opanic

\* what does hold: until Start is pressed a second time the run is alone
SingleRunIsUndisturbed ==
    started <= 1 =>
        OwnPool /\ OwnResults /\ OwnGrid /\ CountersInOrder /\ ~opanic

(***************************************************************************)
(* The log display at the end of a run (SpecTimer).                        *)
(***************************************************************************)
\* C39: when the run has ended the log text last rendered is the content of
\* the log buffer at the end of the run; a tick that took its lines before
\* the timer was stopped never renders after the final update.
C39_FinalUpdateIsLastRendered ==
    upc = "done" => logText = GetLines(lb)

\* what does hold: the final update itself renders the whole buffer
FinalUpdateRendersBuffer ==
    [][FinalSetText => logText' = GetLines(lb)]_vars

====
